---- MODULE Spec2Model ----
(***************************************************************************)
(* Model of src/script.py: the homes.com listings scraper.                 *)
(*                                                                         *)
(* Texts on which the code computes (price text, status, the page-count    *)
(* span) are sequences of characters, so that split(), strip(), replace()  *)
(* and the regular expressions are computed, not assumed; int() and        *)
(* float() read them as Python does, and a float is a binary double.       *)
(***************************************************************************)
EXTENDS Integers, Sequences, FiniteSets, TLC

(***************************************************************************)
(* Bounds of the model.                                                    *)
(***************************************************************************)
\* number of lines of input.txt
NumLocations == 2
\* largest number of listing containers the site serves on one page
MaxListings == 2
\* largest page count N the site announces in "x of N"
MaxTotalPages == 2
\* largest number of records the Dataset comes to hold
MaxRecords == 2
\* largest number of user-agent strings that UserAgent().random chooses from
NumUserAgents == 2

(***************************************************************************)
(* Program constants.                                                      *)
(***************************************************************************)
Threshold == 1500000
max_retries == 1
ConcurrencyLimit == 10
Million == 1000000

(***************************************************************************)
(* Characters and texts.  A text is a sequence of characters.  A character *)
(* is written as a one-character string when it is printable ASCII or one  *)
(* of \t \n \f \r, and as the name of its code point otherwise ("U+00A0"). *)
(***************************************************************************)
AsciiDigits == <<"0", "1", "2", "3", "4", "5", "6", "7", "8", "9">>

\* the decimal digits (Unicode category Nd), 66 runs of ten from ASCII to the
\* segmented digits U+1FBF0..U+1FBF9: \d of re, int() and float() take the
\* decimal digits of every script
DigitRuns ==
    {AsciiDigits,
     <<"U+0660", "U+0661", "U+0662", "U+0663", "U+0664", "U+0665", "U+0666", "U+0667", "U+0668", "U+0669">>,
     <<"U+06F0", "U+06F1", "U+06F2", "U+06F3", "U+06F4", "U+06F5", "U+06F6", "U+06F7", "U+06F8", "U+06F9">>,
     <<"U+07C0", "U+07C1", "U+07C2", "U+07C3", "U+07C4", "U+07C5", "U+07C6", "U+07C7", "U+07C8", "U+07C9">>,
     <<"U+0966", "U+0967", "U+0968", "U+0969", "U+096A", "U+096B", "U+096C", "U+096D", "U+096E", "U+096F">>,
     <<"U+09E6", "U+09E7", "U+09E8", "U+09E9", "U+09EA", "U+09EB", "U+09EC", "U+09ED", "U+09EE", "U+09EF">>,
     <<"U+0A66", "U+0A67", "U+0A68", "U+0A69", "U+0A6A", "U+0A6B", "U+0A6C", "U+0A6D", "U+0A6E", "U+0A6F">>,
     <<"U+0AE6", "U+0AE7", "U+0AE8", "U+0AE9", "U+0AEA", "U+0AEB", "U+0AEC", "U+0AED", "U+0AEE", "U+0AEF">>,
     <<"U+0B66", "U+0B67", "U+0B68", "U+0B69", "U+0B6A", "U+0B6B", "U+0B6C", "U+0B6D", "U+0B6E", "U+0B6F">>,
     <<"U+0BE6", "U+0BE7", "U+0BE8", "U+0BE9", "U+0BEA", "U+0BEB", "U+0BEC", "U+0BED", "U+0BEE", "U+0BEF">>,
     <<"U+0C66", "U+0C67", "U+0C68", "U+0C69", "U+0C6A", "U+0C6B", "U+0C6C", "U+0C6D", "U+0C6E", "U+0C6F">>,
     <<"U+0CE6", "U+0CE7", "U+0CE8", "U+0CE9", "U+0CEA", "U+0CEB", "U+0CEC", "U+0CED", "U+0CEE", "U+0CEF">>,
     <<"U+0D66", "U+0D67", "U+0D68", "U+0D69", "U+0D6A", "U+0D6B", "U+0D6C", "U+0D6D", "U+0D6E", "U+0D6F">>,
     <<"U+0DE6", "U+0DE7", "U+0DE8", "U+0DE9", "U+0DEA", "U+0DEB", "U+0DEC", "U+0DED", "U+0DEE", "U+0DEF">>,
     <<"U+0E50", "U+0E51", "U+0E52", "U+0E53", "U+0E54", "U+0E55", "U+0E56", "U+0E57", "U+0E58", "U+0E59">>,
     <<"U+0ED0", "U+0ED1", "U+0ED2", "U+0ED3", "U+0ED4", "U+0ED5", "U+0ED6", "U+0ED7", "U+0ED8", "U+0ED9">>,
     <<"U+0F20", "U+0F21", "U+0F22", "U+0F23", "U+0F24", "U+0F25", "U+0F26", "U+0F27", "U+0F28", "U+0F29">>,
     <<"U+1040", "U+1041", "U+1042", "U+1043", "U+1044", "U+1045", "U+1046", "U+1047", "U+1048", "U+1049">>,
     <<"U+1090", "U+1091", "U+1092", "U+1093", "U+1094", "U+1095", "U+1096", "U+1097", "U+1098", "U+1099">>,
     <<"U+17E0", "U+17E1", "U+17E2", "U+17E3", "U+17E4", "U+17E5", "U+17E6", "U+17E7", "U+17E8", "U+17E9">>,
     <<"U+1810", "U+1811", "U+1812", "U+1813", "U+1814", "U+1815", "U+1816", "U+1817", "U+1818", "U+1819">>,
     <<"U+1946", "U+1947", "U+1948", "U+1949", "U+194A", "U+194B", "U+194C", "U+194D", "U+194E", "U+194F">>,
     <<"U+19D0", "U+19D1", "U+19D2", "U+19D3", "U+19D4", "U+19D5", "U+19D6", "U+19D7", "U+19D8", "U+19D9">>,
     <<"U+1A80", "U+1A81", "U+1A82", "U+1A83", "U+1A84", "U+1A85", "U+1A86", "U+1A87", "U+1A88", "U+1A89">>,
     <<"U+1A90", "U+1A91", "U+1A92", "U+1A93", "U+1A94", "U+1A95", "U+1A96", "U+1A97", "U+1A98", "U+1A99">>,
     <<"U+1B50", "U+1B51", "U+1B52", "U+1B53", "U+1B54", "U+1B55", "U+1B56", "U+1B57", "U+1B58", "U+1B59">>,
     <<"U+1BB0", "U+1BB1", "U+1BB2", "U+1BB3", "U+1BB4", "U+1BB5", "U+1BB6", "U+1BB7", "U+1BB8", "U+1BB9">>,
     <<"U+1C40", "U+1C41", "U+1C42", "U+1C43", "U+1C44", "U+1C45", "U+1C46", "U+1C47", "U+1C48", "U+1C49">>,
     <<"U+1C50", "U+1C51", "U+1C52", "U+1C53", "U+1C54", "U+1C55", "U+1C56", "U+1C57", "U+1C58", "U+1C59">>,
     <<"U+A620", "U+A621", "U+A622", "U+A623", "U+A624", "U+A625", "U+A626", "U+A627", "U+A628", "U+A629">>,
     <<"U+A8D0", "U+A8D1", "U+A8D2", "U+A8D3", "U+A8D4", "U+A8D5", "U+A8D6", "U+A8D7", "U+A8D8", "U+A8D9">>,
     <<"U+A900", "U+A901", "U+A902", "U+A903", "U+A904", "U+A905", "U+A906", "U+A907", "U+A908", "U+A909">>,
     <<"U+A9D0", "U+A9D1", "U+A9D2", "U+A9D3", "U+A9D4", "U+A9D5", "U+A9D6", "U+A9D7", "U+A9D8", "U+A9D9">>,
     <<"U+A9F0", "U+A9F1", "U+A9F2", "U+A9F3", "U+A9F4", "U+A9F5", "U+A9F6", "U+A9F7", "U+A9F8", "U+A9F9">>,
     <<"U+AA50", "U+AA51", "U+AA52", "U+AA53", "U+AA54", "U+AA55", "U+AA56", "U+AA57", "U+AA58", "U+AA59">>,
     <<"U+ABF0", "U+ABF1", "U+ABF2", "U+ABF3", "U+ABF4", "U+ABF5", "U+ABF6", "U+ABF7", "U+ABF8", "U+ABF9">>,
     <<"U+FF10", "U+FF11", "U+FF12", "U+FF13", "U+FF14", "U+FF15", "U+FF16", "U+FF17", "U+FF18", "U+FF19">>,
     <<"U+104A0", "U+104A1", "U+104A2", "U+104A3", "U+104A4", "U+104A5", "U+104A6", "U+104A7", "U+104A8", "U+104A9">>,
     <<"U+10D30", "U+10D31", "U+10D32", "U+10D33", "U+10D34", "U+10D35", "U+10D36", "U+10D37", "U+10D38", "U+10D39">>,
     <<"U+11066", "U+11067", "U+11068", "U+11069", "U+1106A", "U+1106B", "U+1106C", "U+1106D", "U+1106E", "U+1106F">>,
     <<"U+110F0", "U+110F1", "U+110F2", "U+110F3", "U+110F4", "U+110F5", "U+110F6", "U+110F7", "U+110F8", "U+110F9">>,
     <<"U+11136", "U+11137", "U+11138", "U+11139", "U+1113A", "U+1113B", "U+1113C", "U+1113D", "U+1113E", "U+1113F">>,
     <<"U+111D0", "U+111D1", "U+111D2", "U+111D3", "U+111D4", "U+111D5", "U+111D6", "U+111D7", "U+111D8", "U+111D9">>,
     <<"U+112F0", "U+112F1", "U+112F2", "U+112F3", "U+112F4", "U+112F5", "U+112F6", "U+112F7", "U+112F8", "U+112F9">>,
     <<"U+11450", "U+11451", "U+11452", "U+11453", "U+11454", "U+11455", "U+11456", "U+11457", "U+11458", "U+11459">>,
     <<"U+114D0", "U+114D1", "U+114D2", "U+114D3", "U+114D4", "U+114D5", "U+114D6", "U+114D7", "U+114D8", "U+114D9">>,
     <<"U+11650", "U+11651", "U+11652", "U+11653", "U+11654", "U+11655", "U+11656", "U+11657", "U+11658", "U+11659">>,
     <<"U+116C0", "U+116C1", "U+116C2", "U+116C3", "U+116C4", "U+116C5", "U+116C6", "U+116C7", "U+116C8", "U+116C9">>,
     <<"U+11730", "U+11731", "U+11732", "U+11733", "U+11734", "U+11735", "U+11736", "U+11737", "U+11738", "U+11739">>,
     <<"U+118E0", "U+118E1", "U+118E2", "U+118E3", "U+118E4", "U+118E5", "U+118E6", "U+118E7", "U+118E8", "U+118E9">>,
     <<"U+11950", "U+11951", "U+11952", "U+11953", "U+11954", "U+11955", "U+11956", "U+11957", "U+11958", "U+11959">>,
     <<"U+11C50", "U+11C51", "U+11C52", "U+11C53", "U+11C54", "U+11C55", "U+11C56", "U+11C57", "U+11C58", "U+11C59">>,
     <<"U+11D50", "U+11D51", "U+11D52", "U+11D53", "U+11D54", "U+11D55", "U+11D56", "U+11D57", "U+11D58", "U+11D59">>,
     <<"U+11DA0", "U+11DA1", "U+11DA2", "U+11DA3", "U+11DA4", "U+11DA5", "U+11DA6", "U+11DA7", "U+11DA8", "U+11DA9">>,
     <<"U+16A60", "U+16A61", "U+16A62", "U+16A63", "U+16A64", "U+16A65", "U+16A66", "U+16A67", "U+16A68", "U+16A69">>,
     <<"U+16AC0", "U+16AC1", "U+16AC2", "U+16AC3", "U+16AC4", "U+16AC5", "U+16AC6", "U+16AC7", "U+16AC8", "U+16AC9">>,
     <<"U+16B50", "U+16B51", "U+16B52", "U+16B53", "U+16B54", "U+16B55", "U+16B56", "U+16B57", "U+16B58", "U+16B59">>,
     <<"U+1D7CE", "U+1D7CF", "U+1D7D0", "U+1D7D1", "U+1D7D2", "U+1D7D3", "U+1D7D4", "U+1D7D5", "U+1D7D6", "U+1D7D7">>,
     <<"U+1D7D8", "U+1D7D9", "U+1D7DA", "U+1D7DB", "U+1D7DC", "U+1D7DD", "U+1D7DE", "U+1D7DF", "U+1D7E0", "U+1D7E1">>,
     <<"U+1D7E2", "U+1D7E3", "U+1D7E4", "U+1D7E5", "U+1D7E6", "U+1D7E7", "U+1D7E8", "U+1D7E9", "U+1D7EA", "U+1D7EB">>,
     <<"U+1D7EC", "U+1D7ED", "U+1D7EE", "U+1D7EF", "U+1D7F0", "U+1D7F1", "U+1D7F2", "U+1D7F3", "U+1D7F4", "U+1D7F5">>,
     <<"U+1D7F6", "U+1D7F7", "U+1D7F8", "U+1D7F9", "U+1D7FA", "U+1D7FB", "U+1D7FC", "U+1D7FD", "U+1D7FE", "U+1D7FF">>,
     <<"U+1E140", "U+1E141", "U+1E142", "U+1E143", "U+1E144", "U+1E145", "U+1E146", "U+1E147", "U+1E148", "U+1E149">>,
     <<"U+1E2F0", "U+1E2F1", "U+1E2F2", "U+1E2F3", "U+1E2F4", "U+1E2F5", "U+1E2F6", "U+1E2F7", "U+1E2F8", "U+1E2F9">>,
     <<"U+1E950", "U+1E951", "U+1E952", "U+1E953", "U+1E954", "U+1E955", "U+1E956", "U+1E957", "U+1E958", "U+1E959">>,
     <<"U+1FBF0", "U+1FBF1", "U+1FBF2", "U+1FBF3", "U+1FBF4", "U+1FBF5", "U+1FBF6", "U+1FBF7", "U+1FBF8", "U+1FBF9">>}

\* the value of each decimal digit
DigitVal ==
    [c \in UNION {{r[i] : i \in 1..10} : r \in DigitRuns} |->
        CHOOSE v \in 0..9 : \E r \in DigitRuns : r[v + 1] = c]

IsDigit(c) == c \in DOMAIN DigitVal

\* str.isspace(): the whitespace of str.split(), str.strip(), int(), float()
\* and \s of re
Whitespace ==
    {" ", "\t", "\n", "\r", "\f", "U+000B", "U+001C", "U+001D", "U+001E", "U+001F",
     "U+0085", "U+00A0", "U+1680", "U+2000", "U+2001", "U+2002", "U+2003", "U+2004",
     "U+2005", "U+2006", "U+2007", "U+2008", "U+2009", "U+200A", "U+2028", "U+2029",
     "U+202F", "U+205F", "U+3000"}

\* the whitespace that int() and float() skip around a literal: the ASCII
\* separators U+001C to U+001F are not part of it
LiteralWhitespace == Whitespace \ {"U+001C", "U+001D", "U+001E", "U+001F"}
IsNumChar(c) == IsDigit(c) \/ c = "."
IsNotComma(c) == c # ","
IsNotUnderscore(c) == c # "_"

\* str.lower() on the letters of the alphabet
Lower(s) ==
    LET upper == <<"A", "B", "C", "D", "E", "F", "G", "H", "I", "J", "K", "L", "M",
                   "N", "O", "P", "Q", "R", "S", "T", "U", "V", "W", "X", "Y", "Z">>
        lower == <<"a", "b", "c", "d", "e", "f", "g", "h", "i", "j", "k", "l", "m",
                   "n", "o", "p", "q", "r", "s", "t", "u", "v", "w", "x", "y", "z">>
    IN <<>> \o [i \in DOMAIN s |->
                   IF \E k \in 1..26 : upper[k] = s[i]
                   THEN lower[CHOOSE k \in 1..26 : upper[k] = s[i]]
                   ELSE s[i]]

\* sub in s
Contains(s, sub) ==
    \E i \in 1..(Len(s) - Len(sub) + 1) : SubSeq(s, i, i + Len(sub) - 1) = sub

\* s without the characters of the set spaces at its two ends
StripOf(s, spaces) ==
    IF \A i \in DOMAIN s : s[i] \in spaces THEN <<>>
    ELSE LET first == CHOOSE i \in DOMAIN s :
                          s[i] \notin spaces /\ \A j \in 1..(i - 1) : s[j] \in spaces
             last == CHOOSE i \in DOMAIN s :
                         s[i] \notin spaces /\ \A j \in (i + 1)..Len(s) : s[j] \in spaces
         IN SubSeq(s, first, last)

\* str.strip(): drop leading and trailing whitespace
Strip(s) == StripOf(s, Whitespace)

\* first index >= i of s that does not hold a digit (Len(s)+1 when none)
SpanDigits(s, i) ==
    IF \A j \in i..Len(s) : IsDigit(s[j]) THEN Len(s) + 1
    ELSE CHOOSE j \in i..Len(s) : ~IsDigit(s[j]) /\ \A k \in i..(j - 1) : IsDigit(s[k])

\* first index >= i of s that does not hold whitespace
SpanSpace(s, i) ==
    IF \A j \in i..Len(s) : s[j] \in Whitespace THEN Len(s) + 1
    ELSE CHOOSE j \in i..Len(s) :
             s[j] \notin Whitespace /\ \A k \in i..(j - 1) : s[k] \in Whitespace

\* str.split(): the maximal runs of non-whitespace characters, in order
Split(s) ==
    LET n == Len(s)
        IsStart(i) ==
            s[i] \notin Whitespace /\ (IF i = 1 THEN TRUE ELSE s[i - 1] \in Whitespace)
        IsEnd(i) ==
            s[i] \notin Whitespace /\ (IF i = n THEN TRUE ELSE s[i + 1] \in Whitespace)
        starts == SelectSeq([i \in 1..n |-> i], IsStart)
        ends == SelectSeq([i \in 1..n |-> i], IsEnd)
    IN <<>> \o [k \in 1..Len(starts) |-> SubSeq(s, starts[k], ends[k])]

\* ' '.join(parts)
RECURSIVE JoinSpace(_)
JoinSpace(parts) ==
    IF parts = <<>> THEN <<>>
    ELSE IF Len(parts) = 1 THEN parts[1]
    ELSE parts[1] \o <<" ">> \o JoinSpace(Tail(parts))

(***************************************************************************)
(* Natural numbers of any size.  Python's int is unbounded and a float     *)
(* holds a 53-bit significand, so the numbers of the code are computed on  *)
(* their decimal digits: a natural number is the sequence of its digits,   *)
(* most significant first, without leading zeros; zero is <<0>>.           *)
(***************************************************************************)
\* the sequence of the values that the function f takes on 1..n
AsSeq(f) == <<>> \o f

Zeros(n) == AsSeq([i \in 1..n |-> 0])

\* a without its leading zeros
BigNorm(a) ==
    IF \A i \in DOMAIN a : a[i] = 0 THEN <<0>>
    ELSE LET first == CHOOSE i \in DOMAIN a : a[i] # 0 /\ \A j \in 1..(i - 1) : a[j] = 0
         IN SubSeq(a, first, Len(a))

BigIsZero(a) == a = <<0>>

\* the digits of a natural number n of the model
RECURSIVE NatDigits(_)
NatDigits(n) == IF n < 10 THEN <<n>> ELSE Append(NatDigits(n \div 10), n % 10)

\* a < b
BigLess(a, b) ==
    IF Len(a) # Len(b) THEN Len(a) < Len(b)
    ELSE IF a = b THEN FALSE
    ELSE LET i == CHOOSE i \in DOMAIN a : a[i] # b[i] /\ \A j \in 1..(i - 1) : a[j] = b[j]
         IN a[i] < b[i]

\* the number whose columns, most significant first, are s, every column
\* being in 0..18: a column of 10 or more carries into the column on its
\* left, a column of 9 passes a carry on
Carried(columns) ==
    LET s == AsSeq(columns)
        n == Len(s)
        CarryInto(i) ==
            IF \A j \in (i + 1)..n : s[j] = 9 THEN 0
            ELSE LET j == CHOOSE j \in (i + 1)..n :
                              s[j] # 9 /\ \A k \in (i + 1)..(j - 1) : s[k] = 9
                 IN IF s[j] >= 10 THEN 1 ELSE 0
        body == AsSeq([i \in 1..n |-> (s[i] + CarryInto(i)) % 10])
    IN BigNorm(IF CarryInto(0) = 1 THEN <<1>> \o body ELSE body)

\* a + b
BigAdd(a, b) ==
    LET n == IF Len(a) > Len(b) THEN Len(a) ELSE Len(b)
        x == Zeros(n - Len(a)) \o a
        y == Zeros(n - Len(b)) \o b
    IN Carried([i \in 1..n |-> x[i] + y[i]])

\* a - b, for a >= b
BigSub(a, b) ==
    LET n == Len(a)
        y == Zeros(n - Len(b)) \o b
        t == AsSeq([i \in 1..n |-> a[i] - y[i]])
        BorrowFrom(i) ==
            IF \A j \in (i + 1)..n : t[j] = 0 THEN 0
            ELSE LET j == CHOOSE j \in (i + 1)..n :
                              t[j] # 0 /\ \A k \in (i + 1)..(j - 1) : t[k] = 0
                 IN IF t[j] < 0 THEN 1 ELSE 0
    IN BigNorm(AsSeq([i \in 1..n |-> (t[i] - BorrowFrom(i) + 10) % 10]))

\* a * c, for 0 <= c <= 2^26: the digits of the products a[i] * c are added
\* up column by column (a product has 9 digits at most)
BigTimes(a, c) ==
    LET n == Len(a)
        Part(p, d) ==
            IF p - 9 + d \in 1..n THEN ((a[p - 9 + d] * c) \div (10 ^ d)) % 10 ELSE 0
        col == AsSeq([p \in 1..(n + 10) |->
                       Part(p, 0) + Part(p, 1) + Part(p, 2) + Part(p, 3) + Part(p, 4)
                           + Part(p, 5) + Part(p, 6) + Part(p, 7) + Part(p, 8)])
    IN Carried([p \in 1..(n + 9) |-> (col[p] % 10) + (col[p + 1] \div 10)])

\* a * 2: a digit of 5 or more carries into the digit on its left
BigDouble(a) ==
    (IF a[1] >= 5 THEN <<1>> ELSE <<>>)
        \o AsSeq([i \in 1..Len(a) |->
                    (2 * a[i] + (IF i < Len(a) /\ a[i + 1] >= 5 THEN 1 ELSE 0)) % 10])

\* a * 10^k
TimesPow10(a, k) == IF BigIsZero(a) THEN a ELSE a \o Zeros(k)

\* a * 2^k, by factors of 2^26 at most
RECURSIVE TimesPow2(_, _)
TimesPow2(a, k) ==
    IF BigIsZero(a) \/ k = 0 THEN a
    ELSE TimesPow2(BigTimes(a, 2 ^ (IF k >= 26 THEN 26 ELSE k)),
                   IF k >= 26 THEN k - 26 ELSE 0)

\* b, 2b, ..., 9b
Multiples(b) == AsSeq([c \in 1..9 |-> BigTimes(b, c)])

\* long division of r by a divisor whose multiples are mult, the quotient
\* being below 10^(j+1): its digits after those of q, and the remainder
RECURSIVE BigDivMod(_, _, _, _)
BigDivMod(r, mult, j, q) ==
    IF j < 0 THEN [quot |-> BigNorm(q), rem |-> r]
    ELSE LET \* the digit: the number of the multiples that are not above r
             d == Cardinality({c \in 1..9 : ~BigLess(r, TimesPow10(mult[c], j))})
         IN BigDivMod(IF d = 0 THEN r ELSE BigSub(r, TimesPow10(mult[d], j)),
                      mult, j - 1, Append(q, d))

(***************************************************************************)
(* Values.  None is Python's None.  An int is its sign and the digits of   *)
(* its magnitude.  A float is an IEEE 754 double: class "finite" with the  *)
(* value mant * 2^exp (mant < 2^53; exp >= -1074; mant >= 2^52 unless exp  *)
(* is -1074; zero is mant 0 and exp 0), class "inf", or class "nan"; neg   *)
(* is its sign bit.  int() or float() raising ValueError is ValueError.    *)
(***************************************************************************)
None == [kind |-> "None"]
ValueError == [kind |-> "ValueError"]
PyInt(neg, mag) == [kind |-> "int", neg |-> neg /\ ~BigIsZero(mag), mag |-> mag]
PyFloat(neg, mant, exp) ==
    [kind |-> "float", class |-> "finite", neg |-> neg, mant |-> mant, exp |-> exp]
Infinity(neg) ==
    [kind |-> "float", class |-> "inf", neg |-> neg, mant |-> <<0>>, exp |-> 0]

\* 2^52, the smallest significand of a normal double, and 2^53 - 1, the largest
Two52 == <<4, 5, 0, 3, 5, 9, 9, 6, 2, 7, 3, 7, 0, 4, 9, 6>>
MaxSignificand == <<9, 0, 0, 7, 1, 9, 9, 2, 5, 4, 7, 4, 0, 9, 9, 1>>
\* the exponent of the smallest subnormal double, mant * 2^MinExp
MinExp == 0 - 1074

\* the quotient qr.quot of a division by b, with the remainder qr.rem, as
\* the significand of a double of exponent e: it goes up when the remainder
\* is above half of b, or is half of b and the quotient is odd
RoundHalfEven(neg, qr, b, e) ==
    LET up == \/ BigLess(b, BigDouble(qr.rem))
              \/ (BigDouble(qr.rem) = b /\ qr.quot[Len(qr.quot)] % 2 = 1)
        \* 2^53 is the significand 2^52 with the exponent one up
        carry == up /\ qr.quot = MaxSignificand
        \* zero keeps its sign, an exponent above 971 is out of range
        Finite(m, x) ==
            IF BigIsZero(m) THEN PyFloat(neg, <<0>>, 0)
            ELSE IF x > 971 THEN Infinity(neg)
            ELSE PyFloat(neg, m, x)
    IN Finite(IF carry THEN Two52 ELSE IF up THEN BigAdd(qr.quot, <<1>>) ELSE qr.quot,
              IF carry THEN e + 1 ELSE e)

\* the double nearest to a / b * 2^e, for a quotient a / b of 2^52 at least
\* (or e = MinExp): b is doubled until the quotient is below 2^53, b53 being
\* b * 2^53, then the division is made and its quotient rounded
RECURSIVE ScaleUp(_, _, _, _, _)
ScaleUp(neg, a, b, b53, e) ==
    IF BigLess(a, b53) THEN RoundHalfEven(neg, BigDivMod(a, Multiples(b), 15, <<0>>), b, e)
    ELSE ScaleUp(neg, a, BigDouble(b), BigDouble(b53), e + 1)

\* the double nearest to a / b, ties to the even significand, for a > 0 and
\* b > 0
RoundToDouble(neg, a, b) ==
    LET \* a power of two not above the one looked for: 33219 / 10000 < log2(10)
        est == (((Len(a) - Len(b)) * 33219) \div 10000) - 57
        e0 == IF est < MinExp THEN MinExp ELSE est
    IN ScaleUp(neg, TimesPow2(a, IF e0 < 0 THEN 0 - e0 ELSE 0),
               TimesPow2(b, IF e0 > 0 THEN e0 ELSE 0),
               TimesPow2(b, (IF e0 > 0 THEN e0 ELSE 0) + 53), e0)

\* the double that a literal of float() denotes.  lit is what FloatOf finds
\* in the text: its kind ("error", "inf", "nan" or "decimal"), its sign, the
\* text of its digits, the number of them after the point, and its exponent
DecimalToDouble(lit) ==
    IF lit.kind = "error" \/ (lit.kind = "decimal" /\ lit.digits = <<>>) THEN ValueError
    ELSE IF lit.kind = "inf" THEN Infinity(lit.neg)
    ELSE IF lit.kind = "nan"
    THEN [kind |-> "float", class |-> "nan", neg |-> FALSE, mant |-> <<0>>, exp |-> 0]
    ELSE LET n == BigNorm(AsSeq([i \in DOMAIN lit.digits |-> DigitVal[lit.digits[i]]]))
             p == lit.exponent - lit.frac_len
         IN IF BigIsZero(n) THEN PyFloat(lit.neg, <<0>>, 0)
            ELSE IF Len(n) + p > 310 THEN Infinity(lit.neg)
            ELSE IF Len(n) + p < 0 - 330 THEN PyFloat(lit.neg, <<0>>, 0)
            ELSE RoundToDouble(lit.neg, TimesPow10(n, IF p > 0 THEN p ELSE 0),
                               TimesPow10(<<1>>, IF p < 0 THEN 0 - p ELSE 0))

\* x * 1000000 for a float x: the exact product, rounded to a double
TimesMillion(x) ==
    IF x.class # "finite" \/ BigIsZero(x.mant) THEN x
    ELSE RoundToDouble(x.neg,
                       TimesPow2(BigTimes(x.mant, Million), IF x.exp > 0 THEN x.exp ELSE 0),
                       TimesPow2(<<1>>, IF x.exp < 0 THEN 0 - x.exp ELSE 0))

\* x < n for a number x and an integer n > 0 of the model
LessThan(x, n) ==
    IF x.kind = "int" THEN x.neg \/ BigLess(x.mag, NatDigits(n))
    ELSE IF x.class = "nan" THEN FALSE
    ELSE IF x.neg THEN TRUE
    ELSE IF x.class = "inf" THEN FALSE
    ELSE BigLess(TimesPow2(x.mant, IF x.exp > 0 THEN x.exp ELSE 0),
                 TimesPow2(NatDigits(n), IF x.exp < 0 THEN 0 - x.exp ELSE 0))

(***************************************************************************)
(* int(), float(), str() and repr()                                        *)
(***************************************************************************)
\* an underscore of a numeric literal stands between two digits
UnderscoresOk(t) ==
    \A i \in DOMAIN t :
        t[i] = "_" => /\ i > 1 /\ i < Len(t)
                      /\ IsDigit(t[i - 1]) /\ IsDigit(t[i + 1])

DigitsOf(t) == AsSeq([i \in DOMAIN t |-> DigitVal[t[i]]])

\* int(text): whitespace around it, a sign, digits with underscores between
IntOf(text) ==
    LET Digits(neg, body, ds) ==
            IF ds = <<>> \/ ~UnderscoresOk(body) \/ SpanDigits(ds, 1) # Len(ds) + 1
            THEN ValueError
            \* sys.int_info.default_max_str_digits: a longer run of digits is refused
            ELSE IF Len(ds) > 4300 THEN ValueError
            ELSE PyInt(neg, BigNorm(DigitsOf(ds)))
        Body(neg, body) == Digits(neg, body, SelectSeq(body, IsNotUnderscore))
        Signed(t) == Body(t # <<>> /\ t[1] = "-",
                          IF t # <<>> /\ t[1] \in {"+", "-"} THEN Tail(t) ELSE t)
    IN Signed(StripOf(text, LiteralWhitespace))

\* float(text): whitespace around it, a sign, then inf, infinity or nan in
\* either case, or digits with an optional point and an optional exponent
FloatOf(text) ==
    LET Error == [kind |-> "error"]
        RECURSIVE Val(_, _)
        Val(ds, k) == IF k = 0 THEN 0 ELSE 10 * Val(ds, k - 1) + ds[k]
        \* the exponent as a number of the model, cut at 999999
        Cut(ds) == IF Len(ds) > 6 THEN 999999 ELSE Val(ds, Len(ds))
        \* what follows the digits: nothing, or e, an optional sign and
        \* digits; <<>> when it is something else
        ExponentOf(e) ==
            IF e = <<>> THEN <<0>>
            ELSE IF e[1] \notin {"e", "E"} THEN <<>>
            ELSE LET signed == Len(e) > 1 /\ e[2] \in {"+", "-"}
                     Digits(ds) ==
                         IF ds = <<>> \/ SpanDigits(ds, 1) # Len(ds) + 1 THEN <<>>
                         ELSE <<(IF signed /\ e[2] = "-" THEN 0 - 1 ELSE 1)
                                    * Cut(BigNorm(DigitsOf(ds)))>>
                 IN Digits(SubSeq(e, IF signed THEN 3 ELSE 2, Len(e)))
        Decimal(neg, digits, frac_len, ex) ==
            IF ex = <<>> THEN Error
            ELSE [kind |-> "decimal", neg |-> neg, digits |-> digits,
                  frac_len |-> frac_len, exponent |-> ex[1]]
        \* the fraction digits end before index frac_end of after
        Fraction(neg, int_part, after, frac_end) ==
            Decimal(neg, int_part \o SubSeq(after, 1, frac_end - 1), frac_end - 1,
                    ExponentOf(SubSeq(after, frac_end, Len(after))))
        \* the integer digits, then the point
        Point(neg, int_part, after) == Fraction(neg, int_part, after, SpanDigits(after, 1))
        Integer(neg, int_part, rest) ==
            Point(neg, int_part, IF rest # <<>> /\ rest[1] = "." THEN Tail(rest) ELSE rest)
        Digits(neg, body, int_end) ==
            Integer(neg, SubSeq(body, 1, int_end - 1), SubSeq(body, int_end, Len(body)))
        Named(neg, body, name) ==
            IF name \in {<<"i", "n", "f">>, <<"i", "n", "f", "i", "n", "i", "t", "y">>}
            THEN [kind |-> "inf", neg |-> neg]
            ELSE IF name = <<"n", "a", "n">> THEN [kind |-> "nan"]
            ELSE Digits(neg, body, SpanDigits(body, 1))
        Body(neg, body) == Named(neg, body, Lower(body))
        Signed(t) == Body(t # <<>> /\ t[1] = "-",
                          IF t # <<>> /\ t[1] \in {"+", "-"} THEN Tail(t) ELSE t)
        Stripped(t0) ==
            IF ~UnderscoresOk(t0) THEN Error ELSE Signed(SelectSeq(t0, IsNotUnderscore))
    IN DecimalToDouble(Stripped(StripOf(text, LiteralWhitespace)))

\* the characters of a run of digits
DigitChars(ds) == AsSeq([i \in DOMAIN ds |-> AsciiDigits[ds[i] + 1]])

\* the shortest run of digits that float() reads back as the double
\* mant * 2^exp, and when several are as short the nearest to it: the digits
\* and the place of the decimal point, the value being 0.d1d2... * 10^point.
\* r / s is the part of the value not written yet, mp / s and mm / s the
\* distances to the middle of the gap to the next double above and below
RECURSIVE ShortestFrom(_, _, _, _, _, _)
ShortestFrom(r, s, mult, mp, mm, even) ==
    LET \* the digit d and what is left of the value: low when the digits so
        \* far are near enough from below, high when d + 1 is near enough
        Pick(d, rest, low, high) ==
            IF ~low /\ ~high
            THEN <<d>> \o ShortestFrom(rest, s, mult, TimesPow10(mp, 1), TimesPow10(mm, 1),
                                       even)
            ELSE IF low /\ ~high THEN <<d>>
            ELSE IF high /\ ~low THEN <<d + 1>>
            ELSE IF BigLess(BigDouble(rest), s) \/ (BigDouble(rest) = s /\ d % 2 = 0)
            THEN <<d>>
            ELSE <<d + 1>>
        Near(x, y) == IF even THEN ~BigLess(y, x) ELSE BigLess(x, y)
        Digit(qr, above) ==
            Pick(qr.quot[1], qr.rem, Near(qr.rem, TimesPow10(mm, 1)), Near(s, above))
        Divided(qr) == Digit(qr, BigAdd(qr.rem, TimesPow10(mp, 1)))
    IN Divided(BigDivMod(TimesPow10(r, 1), mult, 0, <<0>>))

RECURSIVE ShortestScaled(_, _, _, _, _, _)
ShortestScaled(r, s, mp, mm, k, even) ==
    LET Reaches(x, y) == IF even THEN ~BigLess(x, y) ELSE BigLess(y, x)
        high == BigAdd(r, mp)
    IN IF Reaches(high, s)
       THEN ShortestScaled(r, TimesPow10(s, 1), mp, mm, k + 1, even)
       ELSE IF ~Reaches(TimesPow10(high, 1), s)
       THEN ShortestScaled(TimesPow10(r, 1), s, TimesPow10(mp, 1), TimesPow10(mm, 1),
                           k - 1, even)
       ELSE [digits |-> ShortestFrom(r, s, Multiples(s), mp, mm, even), point |-> k]

ShortestDigits(mant, exp) ==
    LET \* the double below is half as far when mant is the smallest significand
        narrow == mant = Two52 /\ exp > MinExp
        up == IF exp > 0 THEN exp ELSE 0
        down == IF exp < 0 THEN 0 - exp ELSE 0
        \* a first place of the decimal point: 30103 / 100000 is about log10(2)
        k == ((exp * 30103) \div 100000) + Len(mant)
    IN ShortestScaled(
           TimesPow10(TimesPow2(mant, up + (IF narrow THEN 2 ELSE 1)),
                      IF k < 0 THEN 0 - k ELSE 0),
           TimesPow10(TimesPow2(<<1>>, down + (IF narrow THEN 2 ELSE 1)),
                      IF k > 0 THEN k ELSE 0),
           TimesPow10(TimesPow2(<<1>>, up + (IF narrow THEN 1 ELSE 0)),
                      IF k < 0 THEN 0 - k ELSE 0),
           TimesPow10(TimesPow2(<<1>>, up), IF k < 0 THEN 0 - k ELSE 0),
           k, mant[Len(mant)] % 2 = 0)

\* repr(x) for a float x: the shortest digits, with an exponent when the
\* decimal point falls more than 16 places right or 4 places left of them
FloatRepr(x) ==
    LET \* the digits ds with the decimal point after the first k of them
        Shown(ds, k) ==
            IF k > 0 - 4 /\ k <= 16
            THEN (IF k <= 0 THEN <<"0", ".">> \o DigitChars(Zeros(0 - k)) \o ds
                  ELSE IF k >= Len(ds)
                  THEN ds \o DigitChars(Zeros(k - Len(ds))) \o <<".", "0">>
                  ELSE SubSeq(ds, 1, k) \o <<".">> \o SubSeq(ds, k + 1, Len(ds)))
            ELSE <<ds[1]>> \o (IF Len(ds) > 1 THEN <<".">> \o Tail(ds) ELSE <<>>)
                     \o <<"e", IF k > 0 THEN "+" ELSE "-">>
                     \o (IF (IF k > 0 THEN k - 1 ELSE 1 - k) < 10 THEN <<"0">> ELSE <<>>)
                     \o DigitChars(NatDigits(IF k > 0 THEN k - 1 ELSE 1 - k))
        Digits(sd) == Shown(DigitChars(sd.digits), sd.point)
    IN IF x.class = "nan" THEN <<"n", "a", "n">>
       ELSE (IF x.neg THEN <<"-">> ELSE <<>>)
                \o (IF x.class = "inf" THEN <<"i", "n", "f">>
                    ELSE Digits(IF BigIsZero(x.mant) THEN [digits |-> <<0>>, point |-> 1]
                                ELSE ShortestDigits(x.mant, x.exp)))

\* str(n) for an int n
IntStr(x) == (IF x.neg THEN <<"-">> ELSE <<>>) \o DigitChars(x.mag)

(***************************************************************************)
(* convert_price_to_number                                                 *)
(***************************************************************************)
\* the pattern [$..]?\s*(\d+\.?\d*)\s*[mM](?:illion)? matched with its group
\* starting at index a: the end of the group, or 0 when there is no match
GroupEnd(s, a) ==
    IF ~(a <= Len(s) /\ IsDigit(s[a])) THEN 0
    ELSE LET Fraction(e3, j) == IF j <= Len(s) /\ s[j] \in {"m", "M"} THEN e3 ELSE 0
             Point(e2) == Fraction(SpanDigits(s, e2), SpanSpace(s, SpanDigits(s, e2)))
             Integer(e1) == Point(IF e1 <= Len(s) /\ s[e1] = "." THEN e1 + 1 ELSE e1)
         IN Integer(SpanDigits(s, a))

\* re.search: the group of the leftmost match, <<>> when nothing matches
MillionGroup(s) ==
    LET Leftmost(starts) ==
            IF starts = {} THEN <<>>
            ELSE LET a == CHOOSE x \in starts : \A y \in starts : x <= y
                 IN SubSeq(s, a, GroupEnd(s, a) - 1)
    IN Leftmost({a \in 1..Len(s) : GroupEnd(s, a) # 0})

convert_price_to_number(price_text) ==
    LET \* the group of the match when the text holds an m, else <<>>
        Group(t, low) ==
            IF \/ Contains(low, <<"m", "i", "l", "l", "i", "o", "n">>)
               \/ Contains(low, <<"m">>)
            THEN MillionGroup(t) ELSE <<>>
        \* the text that float() gets, with the group g of the match: the
        \* group, else the digits and points of the text
        Source(t, g) == [matched |-> g # <<>>,
                         text |-> IF g # <<>> THEN g ELSE SelectSeq(t, IsNumChar)]
        Stripped(t) == Source(t, Group(t, Lower(t)))
        src == Stripped(SelectSeq(Strip(price_text), IsNotComma))
    IN IF src.matched THEN TimesMillion(FloatOf(src.text))
       ELSE IF src.text # <<>> THEN FloatOf(src.text)
       ELSE PyInt(FALSE, <<0>>)

(***************************************************************************)
(* Literal texts of the code.                                              *)
(***************************************************************************)
\* 'None'
TXT_NONE ==
    <<"N", "o", "n", "e">>
\* 'Beds'
TXT_BEDS ==
    <<"B", "e", "d", "s">>
\* 'Baths'
TXT_BATHS ==
    <<"B", "a", "t", "h", "s">>
\* 'Sq Ft'
TXT_SQFT ==
    <<"S", "q", " ", "F", "t">>
\* 'Est'
TXT_EST ==
    <<"E", "s", "t">>
\* 'Estimated Price'
TXT_ESTIMATED ==
    <<"E", "s", "t", "i", "m", "a", "t", "e", "d", " ", "P", "r", "i", "c", "e">>
\* 'Not Listed For Sale'
TXT_NOT_LISTED ==
    <<"N", "o", "t", " ", "L", "i", "s", "t", "e", "d", " ", "F", "o", "r", " ", "S", "a", "l", "e">>
\* ', Baths: '
TXT_BATHS_SEP ==
    <<",", " ", "B", "a", "t", "h", "s", ":", " ">>
\* ', Sq Ft: '
TXT_SQFT_SEP ==
    <<",", " ", "S", "q", " ", "F", "t", ":", " ">>
\* 'Page 1 of '
TXT_PAGE_1_OF ==
    <<"P", "a", "g", "e", " ", "1", " ", "o", "f", " ">>
\* 'Page 1'
TXT_PAGE_1 ==
    <<"P", "a", "g", "e", " ", "1">>
\* '1 of many'
TXT_1_OF_MANY ==
    <<"1", " ", "o", "f", " ", "m", "a", "n", "y">>
\* '1 of -1'
TXT_1_OF_MINUS_1 ==
    <<"1", " ", "o", "f", " ", "-", "1">>

(***************************************************************************)
(* Formatting and field parsing used by process_listing                    *)
(***************************************************************************)
\* None written the JSON way
Fmt_Null(v) ==
    CASE v.kind = "None" -> <<"n", "u", "l", "l">>
      [] v.kind = "int" -> IntStr(v)
      [] v.kind = "float" -> FloatRepr(v)

\* str(v) as an f-string renders it
Fmt(v) ==
    CASE v.kind = "None" -> TXT_NONE
      [] v.kind = "int" -> IntStr(v)
      [] v.kind = "float" -> FloatRepr(v)

\* a failed parse is logged and leaves the field as it was
OrKeep(parsed, old) == IF parsed.kind = "ValueError" THEN old ELSE parsed

\* the loop over the <li> of the details list: beds, baths, sqft
RECURSIVE ParseDetails(_, _)
ParseDetails(items, acc) ==
    IF items = <<>> THEN acc
    ELSE LET text == Strip(Head(items))
             first == Split(Head(items))[1]
         IN ParseDetails(
                Tail(items),
                IF Contains(text, TXT_BEDS)
                THEN [acc EXCEPT !.beds = OrKeep(IntOf(first), acc.beds)]
                ELSE IF Contains(text, TXT_BATHS)
                THEN [acc EXCEPT !.baths = OrKeep(FloatOf(first), acc.baths)]
                ELSE IF Contains(text, TXT_SQFT)
                THEN [acc EXCEPT !.sqft = OrKeep(IntOf(SelectSeq(first, IsNotComma)),
                                                 acc.sqft)]
                ELSE acc)

(***************************************************************************)
(* Listing nodes.  A node is what BeautifulSoup finds in one listing       *)
(* container: kind is the container that matched it; price is the          *)
(* price-container <p> (its get_text(strip=True) and its status-pill       *)
(* span); details are the texts of the <li> of the details list; nested    *)
(* and flat are the agent-detail <p> found inside the description          *)
(* container and in the whole node.  Names and addresses are given         *)
(* stripped.                                                               *)
(***************************************************************************)
Absent == [present |-> FALSE]
Elem(t) == [present |-> TRUE, text |-> t]
PriceContainer(t, pill) == [present |-> TRUE, text |-> t, pill |-> pill]
AgentDetail(agent, agency) == [present |-> TRUE, agent_name |-> agent, agency_name |-> agency]

\* the first token taken as the price whatever it is
PriceAndStatus_FirstToken(price_container) ==
    IF ~price_container.present
    THEN [price_text |-> <<>>, status |-> <<>>]
    ELSE LET price_parts == Split(price_container.text)
         IN [price_text |-> IF price_parts = <<>> THEN <<>> ELSE price_parts[1],
             status |-> IF price_container.pill.present THEN price_container.pill.text
                        ELSE IF price_parts = <<>> THEN <<>>
                        ELSE JoinSpace(Tail(price_parts))]

\* lines 54-75: price text and status out of the price container
PriceAndStatus(price_container) ==
    IF ~price_container.present
    THEN [price_text |-> <<>>, status |-> <<>>]
    ELSE LET price_parts == Split(price_container.text)
             est == price_parts # <<>> /\ price_parts[1] = TXT_EST /\ Len(price_parts) > 1
             price_text == IF price_parts = <<>> THEN <<>>
                           ELSE IF est THEN price_parts[2] ELSE price_parts[1]
             derived == IF price_parts = <<>> THEN <<>>
                        ELSE IF est THEN TXT_ESTIMATED
                        ELSE IF Len(price_parts) > 1 THEN JoinSpace(Tail(price_parts))
                        ELSE <<>>
         IN [price_text |-> price_text,
             status |-> IF price_container.pill.present
                        THEN price_container.pill.text ELSE derived]

\* lines 101-115: agent and agency names
AgentAndAgency(listing) ==
    LET agent_detail == IF listing.description_container.present
                        THEN listing.description_container.agent_detail
                        ELSE listing.agent_detail
    IN IF ~agent_detail.present
       THEN [agent |-> "", agency |-> ""]
       ELSE [agent |-> IF agent_detail.agent_name.present
                       THEN agent_detail.agent_name.text ELSE "",
             agency |-> IF agent_detail.agency_name.present
                        THEN agent_detail.agency_name.text ELSE ""]

\* the gate with a digit of the threshold lost
BelowThreshold_Loose(price_value) == LessThan(price_value, Threshold \div 10)

\* line 122: the filtering gate
BelowThreshold(price_value) == LessThan(price_value, Threshold)

\* lines 117-139: the number of the price against the threshold, and the
\* record; d holds the beds, baths and sqft of the details
ListingResult(listing, ps, d, price_value) ==
    IF price_value.kind = "ValueError"
    THEN [raised |-> TRUE, value |-> None]
    ELSE IF BelowThreshold(price_value)
    THEN [raised |-> FALSE, value |-> None]
    ELSE [raised |-> FALSE,
          value |-> [kind |-> "record",
                     Found |-> "ok",
                     Address |-> IF listing.address.present THEN listing.address.text ELSE "",
                     Price |-> ps.price_text,
                     PriceValue |-> price_value,
                     Status |-> IF ps.status # <<>> THEN ps.status ELSE TXT_NOT_LISTED,
                     Beds |-> Fmt(d.beds) \o TXT_BATHS_SEP \o Fmt(d.baths)
                                \o TXT_SQFT_SEP \o Fmt(d.sqft),
                     Agent |-> AgentAndAgency(listing).agent,
                     Agency |-> AgentAndAgency(listing).agency]]

\* process_listing up to its except clauses: the value returned, or the
\* exception raised inside the try block
ExtractListing(listing) ==
    ListingResult(listing,
                  PriceAndStatus(listing.price_container),
                  IF listing.details_container.present
                  THEN ParseDetails(listing.details_container.items,
                                    [beds |-> None, baths |-> None, sqft |-> None])
                  ELSE [beds |-> None, baths |-> None, sqft |-> None],
                  convert_price_to_number(PriceAndStatus(listing.price_container).price_text))

\* an exception of the try block leaving process_listing
Raised == [kind |-> "Exception"]

\* process_listing without its except clauses
process_listing_Uncaught(listing) ==
    LET Outcome(r) == IF r.raised THEN Raised ELSE r.value
    IN Outcome(ExtractListing(listing))

\* lines 44-148: every exception is caught and logged, and None returned
process_listing(listing) == ExtractListing(listing).value


(***************************************************************************)
(* The listing containers the site serves.                                 *)
(***************************************************************************)
\* for sale, "$2.5M", with details and an agent inside the description
NodeA ==
    [kind |-> "for-sale",
     price_container |-> PriceContainer(<<"$", "2", ".", "5", "M">>, Absent),
     details_container |-> [present |-> TRUE,
                            items |-> <<<<"3", " ", "B", "e", "d", "s">>, <<"2", ".", "5", " ", "B", "a", "t", "h", "s">>, <<"1", ",", "8", "5", "0", " ", "S", "q", " ", "F", "t">>>>],
     address |-> Elem("12 Ocean Dr"),
     description_container |-> [present |-> TRUE,
                                agent_detail |-> AgentDetail(Elem("Ann Lee"), Elem("Coast Realty"))],
     agent_detail |-> AgentDetail(Elem("Ann Lee"), Elem("Coast Realty"))]

\* off market, "Est $1.4999999999999999M": the decimal is read as the double
\* 1.5 and the price is 1500000.0; "Studio Beds" and "inf Baths" as details,
\* agent found by the flat search
NodeB ==
    [kind |-> "off-market",
     price_container |-> PriceContainer(<<"E", "s", "t", " ", "$", "1", ".", "4", "9", "9", "9", "9", "9", "9", "9", "9", "9", "9", "9", "9", "9", "9", "9", "M">>, Absent),
     details_container |-> [present |-> TRUE,
                            items |-> <<<<"S", "t", "u", "d", "i", "o", " ", "B", "e", "d", "s">>, <<"i", "n", "f", " ", "B", "a", "t", "h", "s">>>>],
     address |-> Elem("7 Hill Rd"),
     description_container |-> Absent,
     agent_detail |-> AgentDetail(Elem("Bo Diaz"), Absent)]

\* a data-nosnippet div, "$950,000 Sold": below the threshold
NodeC ==
    [kind |-> "nosnippet",
     price_container |-> PriceContainer(<<"$", "9", "5", "0", ",", "0", "0", "0", " ", "S", "o", "l", "d">>, Absent),
     details_container |-> [present |-> TRUE, items |-> <<<<"S", "t", "u", "d", "i", "o", " ", "B", "e", "d", "s">>>>],
     address |-> Elem("3 Elm St"),
     description_container |-> Absent,
     agent_detail |-> Absent]

\* for sale, "$1.500.000": float() raises ValueError on "1.500.000"
NodeE ==
    [kind |-> "for-sale",
     price_container |-> PriceContainer(<<"$", "1", ".", "5", "0", "0", ".", "0", "0", "0">>, Absent),
     details_container |-> Absent,
     address |-> Elem("9 Canal St"),
     description_container |-> Absent,
     agent_detail |-> Absent]

ListingNodes == {NodeA, NodeB, NodeC, NodeE}

\* what process_listing does and returns for each of them, computed once
ExtractListingOf == [n \in ListingNodes |-> ExtractListing(n)]
ProcessListingOf == [n \in ListingNodes |-> process_listing(n)]


(***************************************************************************)
(* The output file and the loaders.  The content of output.json is a JSON  *)
(* list (kind "list"), a JSON object or string (kind "object": not a list, *)
(* but len() accepts it), a JSON number, true, false or null (kind         *)
(* "scalar": len() raises TypeError), text that json.load rejects with     *)
(* JSONDecodeError (kind "malformed"), or a file on which open() or        *)
(* json.load raises an exception that is not a JSONDecodeError (kind       *)
(* "unloadable": UnicodeDecodeError on bytes that are not UTF-8,           *)
(* RecursionError on brackets nested too deep, ValueError on a number of   *)
(* more than 4300 digits, PermissionError on a file that may not be        *)
(* read); kind "absent" is no file.                                        *)
(***************************************************************************)
NoFile == [kind |-> "absent"]
Malformed == [kind |-> "malformed"]
Unloadable(error) == [kind |-> "unloadable", error |-> error]
JsonObject == [kind |-> "object"]
JsonScalar == [kind |-> "scalar"]
JsonList(recs) == [kind |-> "list", recs |-> recs]

\* a record that an earlier run wrote to the file
OldRecord == process_listing(NodeA)

\* the files a run starts with
InitialFiles ==
    {NoFile, Malformed, JsonObject, JsonScalar, JsonList(<<>>), JsonList(<<OldRecord>>),
     Unloadable("UnicodeDecodeError"), Unloadable("RecursionError"),
     Unloadable("ValueError"), Unloadable("PermissionError")}

\* main, lines 404-410: the value bound to all_properties, or the exception
\* that leaves the try block (only JSONDecodeError is caught)
LoadAllProperties(f) ==
    CASE f.kind = "absent" -> [raised |-> "none", value |-> JsonList(<<>>)]
      [] f.kind = "malformed" -> [raised |-> "none", value |-> JsonList(<<>>)]
      [] f.kind = "unloadable" -> [raised |-> f.error, value |-> JsonList(<<>>)]
      [] f.kind = "scalar" -> [raised |-> "TypeError", value |-> JsonList(<<>>)]
      [] OTHER -> [raised |-> "none", value |-> f]

\* scrape_real_estate_listings, lines 221-233: the starting properties, or
\* the exception that leaves the try block (only JSONDecodeError is caught)
LoadExisting(f) ==
    CASE f.kind = "list" -> [raised |-> "none", value |-> f.recs]
      [] f.kind = "unloadable" -> [raised |-> f.error, value |-> <<>>]
      [] OTHER -> [raised |-> "none", value |-> <<>>]

(***************************************************************************)
(* Total page count, lines 240-260                                         *)
(***************************************************************************)
\* first index >= i at which "of" starts in s, 0 when there is none
FindOf(s, i) ==
    LET IsOf(j) == s[j] = "o" /\ s[j + 1] = "f"
    IN IF \A j \in i..(Len(s) - 1) : ~IsOf(j) THEN 0
       ELSE CHOOSE j \in i..(Len(s) - 1) : IsOf(j) /\ \A k \in i..(j - 1) : ~IsOf(k)

\* the part before the first "of" parsed in place of the part after it
ParsePageInfo_Before(text) ==
    LET p == FindOf(text, 1)
    IN IF p = 0 THEN IntOf(Strip(text)) ELSE IntOf(Strip(SubSeq(text, 1, p - 1)))

\* int(text.split('of')[1].strip()); IndexError when text holds no "of"
ParsePageInfo(text) ==
    LET p == FindOf(text, 1)
        q == IF p = 0 THEN 0 ELSE FindOf(text, p + 2)
        second == IF q = 0 THEN SubSeq(text, p + 2, Len(text)) ELSE SubSeq(text, p + 2, q - 1)
    IN IF p = 0 THEN [kind |-> "IndexError"] ELSE IntOf(Strip(second))

\* the value of total_pages after the first request, an int
TotalPagesOf(resp) ==
    IF resp.exception \/ resp.status # 200 THEN PyInt(FALSE, <<1>>)
    ELSE IF ~resp.body.search_marker.present THEN PyInt(FALSE, <<1>>)
    ELSE IF ~resp.body.search_marker.span.present THEN PyInt(FALSE, <<1>>)
    ELSE LET n == ParsePageInfo(resp.body.search_marker.span.text)
         IN IF n.kind = "int" THEN n ELSE PyInt(FALSE, <<1>>)

(***************************************************************************)
(* What the site answers.  Every response has a status and a body; a       *)
(* request that ends in a network error has neither (exception).  Each     *)
(* request reads these parts of the body: the search-results marker (first *)
(* request), the error container, the pagination block and the marker      *)
(* (page request), the listing containers in document order (scrape_page). *)
(***************************************************************************)
Statuses == {200, 403, 404, 500}

PageInfoTexts ==
    {TXT_PAGE_1_OF \o DigitChars(NatDigits(n)) : n \in 0..MaxTotalPages}
        \cup {TXT_PAGE_1, TXT_1_OF_MANY, TXT_1_OF_MINUS_1}

SearchMarkers ==
    {Absent, [present |-> TRUE, span |-> Absent]}
        \cup {[present |-> TRUE, span |-> Elem(t)] : t \in PageInfoTexts}

Paginations == {"none", "no-next", "next"}

\* a page shows a listing container once
NodeSeqs ==
    UNION {{ns \in [1..n -> ListingNodes] : \A i, j \in 1..n : ns[i] = ns[j] => i = j} :
              n \in 0..MaxListings}

NetworkError == [exception |-> TRUE, status |-> 0]

\* the pages the site serves with status 200
Pages ==
    [search_marker : SearchMarkers, error_container : BOOLEAN,
     pagination : Paginations, nodes : NodeSeqs]

\* the page the site serves with every other status: it has none of the
\* elements the program looks for
ErrorPage ==
    [search_marker |-> Absent, error_container |-> FALSE, pagination |-> "none",
     nodes |-> <<>>]

Response(st, body) == [exception |-> FALSE, status |-> st, body |-> body]

\* the answers to a request, told apart by the parts of the body that the
\* request reads
Responses(bodies) ==
    {NetworkError}
        \cup {Response(st, ErrorPage) : st \in Statuses \ {200}}
        \cup {Response(200, b) : b \in bodies}

\* the first request reads the search-results marker
FirstRead(p) == [ErrorPage EXCEPT !.search_marker = p.search_marker]
\* the page request reads the error container, the pagination block and,
\* when there is no pagination block, whether the search-results marker is
\* there
PageRead(p) ==
    [ErrorPage EXCEPT !.error_container = p.error_container,
                      !.pagination = p.pagination,
                      !.search_marker = IF p.pagination = "none" /\ p.search_marker.present
                                        THEN [present |-> TRUE, span |-> Absent]
                                        ELSE Absent]
\* scrape_page reads the listing containers
ScrapeRead(p) == [ErrorPage EXCEPT !.nodes = p.nodes]

FirstResponses == Responses({FirstRead(p) : p \in Pages})
PageResponses == Responses({PageRead(p) : p \in Pages})
ScrapeResponses == Responses({ScrapeRead(p) : p \in Pages})

IsForSale(n) == n.kind = "for-sale"
IsOffMarket(n) == n.kind = "off-market"
IsNoSnippet(n) == n.kind = "nosnippet"

\* where a container stands in the document among the containers of its page
\* that are processed: 1 for the first of them, 2 for the second, ...
PositionOf(nodes, elements, n) ==
    LET k == CHOOSE k \in DOMAIN nodes : nodes[k] = n
    IN Cardinality({j \in 1..k : \E i \in DOMAIN elements : elements[i] = nodes[j]})

\* the containers of both classes as the document has them
ListingElements_DocumentOrder(nodes) ==
    LET IsEither(n) == IsForSale(n) \/ IsOffMarket(n)
        found == SelectSeq(nodes, IsEither)
    IN IF found # <<>> THEN found ELSE SelectSeq(nodes, IsNoSnippet)

\* lines 172-182: both container classes, else the data-nosnippet divs
ListingElements(nodes) ==
    LET found == SelectSeq(nodes, IsForSale) \o SelectSeq(nodes, IsOffMarket)
    IN IF found # <<>> THEN found ELSE SelectSeq(nodes, IsNoSnippet)


(***************************************************************************)
(* Decisions of the page loop                                              *)
(***************************************************************************)
\* the status checks taking only server errors for a reason to stop
PageStop_ServerErrors(resp) ==
    IF resp.exception THEN "exception"
    ELSE IF resp.status >= 500 THEN "status"
    ELSE IF resp.body.error_container THEN "error-container"
    ELSE "none"

\* lines 284-299: why the page request stops the loop, "none" when it does not
PageStop(resp) ==
    IF resp.exception THEN "exception"
    ELSE IF resp.status = 404 THEN "404"
    ELSE IF resp.status # 200 THEN "status"
    ELSE IF resp.body.error_container THEN "error-container"
    ELSE "none"

\* lines 159-166 and 195-199: does scrape_page try again after this response
Retries(resp, att) ==
    (resp.exception \/ resp.status = 403) /\ att < max_retries - 1

\* the session keeping its headers
UpdatedHeaders_Kept(current, generated) == current

\* session.headers.update(get_random_headers()), line 156: the header set
\* of the session after the call
UpdatedHeaders(current, generated) ==
    [k \in DOMAIN current \cup DOMAIN generated |->
        IF k \in DOMAIN generated THEN generated[k] ELSE current[k]]

\* the merge-and-resave step run after every location
AlreadySaved_Never(f) == FALSE

\* line 425, os.path.exists(output_file): main takes the records for saved
AlreadySaved(f) == f.kind # "absent"

\* the records of the page that the Dataset does not hold yet
Extended_Deduplicated(props, listings) ==
    LET IsNew(r) == \A i \in DOMAIN props : props[i] # r
    IN props \o SelectSeq(listings, IsNew)

\* line 320, properties.extend(page_listings)
Extended(props, listings) == props \o listings

\* the page index left as it is
NextPageIndex_Same(pg) == pg

\* line 366, page += 1
NextPageIndex(pg) == pg + 1

\* a wait that returns when the first task has finished
GatherDone_First(ts) == \E i \in DOMAIN ts : ts[i].state = "done"

\* asyncio.gather, line 191: returns when every task has finished
GatherDone(ts) == \A i \in DOMAIN ts : ts[i].state = "done"

IsRecord(r) == r.kind = "record"

\* the number of records that the listing containers of a page give
YieldsRecord(n) == IsRecord(ProcessListingOf[n])
Yield(nodes) == Len(SelectSeq(ListingElements(nodes), YieldsRecord))

\* line 193
NotNone(ts) ==
    SelectSeq([i \in DOMAIN ts |-> ts[i].result], IsRecord)

\* lines 191-199: an exception that a task raises leaves gather and is
\* caught by scrape_page, which then returns []; otherwise the results that
\* are not None are returned
Gathered(ts) ==
    IF \E i \in DOMAIN ts : ts[i].result = Raised THEN <<>> ELSE NotNone(ts)

\* the page cycle saving whatever scrape_page returned
HasListings_Always(listings) == TRUE

\* line 317: if page_listings
HasListings(listings) == listings # <<>>

\* lines 328-329 and 336-337: what json.dump writes
Dumped(props, listings) == JsonList(props)

\* the decision without the look for the search-results marker
Continuation_NoMarker(sp, pg, total) ==
    IF sp.pagination # "none"
    THEN IF sp.pagination = "next" THEN "continue" ELSE "no-next"
    ELSE IF ~LessThan(total, pg + 1) THEN "continue" ELSE "no-pagination"

\* lines 346-360: "continue", or why the loop stops after the page; pg < total
\* is total not being below pg + 1
Continuation(sp, pg, total) ==
    IF sp.pagination # "none"
    THEN IF sp.pagination = "next" THEN "continue" ELSE "no-next"
    ELSE IF sp.search_results /\ ~LessThan(total, pg + 1) THEN "continue"
    ELSE "no-pagination"

\* a write of the records recs that fails leaves the file as it was, or
\* leaves a file that open() has truncated and json.dump has not completed:
\* text that json.load rejects, or, when the write stopped inside the bytes
\* of a character that is not ASCII (every record holds one, and
\* ensure_ascii is False), bytes that are not UTF-8
AfterFailedWrite(f, recs) ==
    {f, Malformed} \cup (IF recs # <<>> THEN {Unloadable("UnicodeDecodeError")} ELSE {})

(***************************************************************************)
(* Sample inputs on which the functions are applied one at a time.         *)
(***************************************************************************)
\* price texts given to convert_price_to_number
SamplePriceTexts ==
    {<<"$", "U+0968", "M">>,
     <<"U+0967", "U+096B", "U+0966", "U+0966", "U+0966", "U+0966", "U+0966">>,
     <<"1", "U+06F0">>,
     <<"$", "U+0967", ".", "U+096B", "M">>,
     <<"U+1D7CF", "U+1D7D0">>,
     <<"$", "2", ".", "5", "M">>,
     <<"1", ",", "7", "5", "0", ",", "0", "0", "0">>,
     <<"C", "o", "n", "t", "a", "c", "t", " ", "A", "g", "e", "n", "t">>,
     <<"$", "1", ".", "5", "0", "0", ".", "0", "0", "0">>,
     <<".">>,
     <<>>,
     <<"$", "9", "5", "0", ",", "0", "0", "0">>,
     <<"1", "2", ".", "m">>,
     <<"$", "1", ".", "2", ".", "5", "M">>,
     <<"2", ".", "5", " ", "m", "i", "l", "l", "i", "o", "n">>,
     <<" ", "$", "3", "M", " ">>,
     <<"$", "1", ",", "5", "0", "0", ",", "0", "0", "0">>,
     <<"1", "4", "9", "9", "9", "9", "9", ".", "9", "9">>,
     <<"$", "3", ".", "2", "M">>,
     <<"$", ".", "5", "M">>,
     <<"C", "a", "l", "l", " ", "5", "5", "5", ".", "1", "2", "3", "4">>,
     <<"3", " ", "b", "e", "d", "s", " ", "$", "2", "M">>,
     <<"$", "2", ".", "5", "0", "M">>,
     <<"$", "1", ".", "5", " ", "M">>,
     <<"M">>,
     <<"1", ".", ".", "5">>,
     <<"$", "1", "0", "M">>,
     <<"$", "8", ".", "2", "M">>,
     <<"1", "4", "9", "9", "9", "9", "9", ".", "9", "9", "9", "9", "9", "9", "9", "9", "9", "9", "9">>,
     <<"$", "1", ".", "4", "9", "9", "9", "9", "9", "9", "9", "9", "9", "9", "9", "9", "9", "9", "9", "M">>,
     <<"U+00A3", "4", " ", "m", "i", "l", "l", "i", "o", "n">>,
     <<"$", "2", "U+00A0", "M">>,
     <<"$", "2", "\r", "M">>,
     <<"1", "2", "3", "4", "5", "6", "7", "8", "9", "0", "1", "2", "3", "4", "5", "6", "7", "8", "9", "0">>,
     <<"$", "U+0662", "M">>,
     <<"0", ".", "0", "0", "0", "0", "1">>,
     <<"1", "e", "5">>,
     <<"$", "1", "0", "0", "0", "0", "0", "0", "0", "0", "0", "0", "0", "0", "0", "0", "0", "0", "0", "0", "0", "0", "0", "0", "0", "0", "0", "0", "0", "0", "0", "0", "0", "0", "0", "0", "0", "0", "0", "0", "0", "0", "0", "0", "0", "0", "0", "0", "0", "0", "0", "0", "0", "0", "0", "0", "0", "0", "0", "0", "0", "0", "0", "0", "0", "0", "0", "0", "0", "0", "0", "0", "0", "0", "0", "0", "0", "0", "0", "0", "0", "0", "0", "0", "0", "0", "0", "0", "0", "0", "0", "0", "0", "0", "0", "0", "0", "0", "0", "0", "0", "0", "0", "0", "0", "0", "0", "0", "0", "0", "0", "0", "0", "0", "0", "0", "0", "0", "0", "0", "0", "0", "0", "0", "0", "0", "0", "0", "0", "0", "0", "0", "0", "0", "0", "0", "0", "0", "0", "0", "0", "0", "0", "0", "0", "0", "0", "0", "0", "0", "0", "0", "0", "0", "0", "0", "0", "0", "0", "0", "0", "0", "0", "0", "0", "0", "0", "0", "0", "0", "0", "0", "0", "0", "0", "0", "0", "0", "0", "0", "0", "0", "0", "0", "0", "0", "0", "0", "0", "0", "0", "0", "0", "0", "0", "0", "0", "0", "0", "0", "0", "0", "0", "0", "0", "0", "0", "0", "0", "0", "0", "0", "0", "0", "0", "0", "0", "0", "0", "0", "0", "0", "0", "0", "0", "0", "0", "0", "0", "0", "0", "0", "0", "0", "0", "0", "0", "0", "0", "0", "0", "0", "0", "0", "0", "0", "0", "0", "0", "0", "0", "0", "0", "0", "0", "0", "0", "0", "0", "0", "0", "0", "0", "0", "0", "0", "0", "0", "0", "0", "0", "0", "0", "0", "0", "0", "0", "0", "0", "0", "0", "0", "0", "0", "0", "0", "0", "0", "0", "0", "0", "0", "0", "0", "0", "0", "0", "0", "0", "0", "0", "0", "0", "0", "0", "0", "0", "0", "0", "0", "0", "0", "0", "0", "0", "0", "0", "0", "0", "0", "0", "0", "0", "0", "0", "0", "0", "0", "0", "0", "0", "0">>}

\* get_text(strip=True) of price containers
SampleContainerTexts ==
    {<<"$", "U+0968", ".", "U+096B", "M">>,
     <<"$", "2", ".", "5", "M">>,
     <<"E", "s", "t", " ", "$", "3", ".", "2", "M">>,
     <<"E", "s", "t">>,
     <<"$", "2", ".", "5", "M", " ", "S", "o", "l", "d">>,
     <<"$", "4", "M", " ", " ", " ", "U", "n", "d", "e", "r", " ", " ", "C", "o", "n", "t", "r", "a", "c", "t">>,
     <<>>,
     <<"E", "s", "t", " ", "$", "3", ".", "2", "M", " ", "N", "e", "w">>,
     <<"$", "9", "5", "0", ",", "0", "0", "0">>,
     <<"$", "2", "M", "\r", "\n", "S", "o", "l", "d">>,
     <<"$", "8", ".", "2", "M">>,
     <<"E", "s", "t", "U+00A0", "$", "1", ".", "4", "9", "9", "9", "9", "9", "9", "9", "9", "9", "9", "9", "9", "9", "9", "9", "M">>}

\* texts of the span of the search-results marker
SampleSpanTexts ==
    {<<"P", "a", "g", "e", " ", "1", " ", "o", "f", " ", "1", "2", "3", "4", "5", "6", "7", "8", "9", "0">>,
     <<"P", "a", "g", "e", " ", "1", " ", "o", "f", " ", "1", "0", "0", "0", "0", "0", "0", "0", "0", "0">>,
     <<"1", " ", "o", "f", " ", "-", "1", "2", "3", "4", "5", "6", "7", "8", "9", "0">>,
     <<"P", "a", "g", "e", " ", "1", " ", "o", "f", " ", "U+0969">>,
     <<"1", " ", "o", "f", " ", "U+06F1", "U+06F2">>,
     <<"P", "a", "g", "e", " ", "1", " ", "o", "f", " ", "1", "2">>,
     <<"1", " ", "o", "f", " ", "0">>,
     <<"P", "a", "g", "e", " ", "1">>,
     <<"1", " ", "o", "f", " ", "m", "a", "n", "y">>,
     <<"1", " ", "o", "f", " ", "-", "1">>,
     <<"1", " ", "o", "f", " ", "2", " ", "o", "f", " ", "3">>,
     <<"P", "a", "g", "e", " ", "1", "o", "f", "2">>,
     <<"1", " ", "o", "f", " ", " ", "7", " ">>,
     <<"o", "f", " ", "5">>,
     <<"1", " ", "o", "f">>,
     <<"1", " ", "o", "f", " ", "1", ",", "2", "3", "4">>,
     <<"R", "o", "o", "f", " ", "1", " ", "o", "f", " ", "3">>,
     <<"1", " ", "o", "f", " ", "+", "4">>,
     <<"1", " ", "O", "F", " ", "3">>,
     <<"P", "a", "g", "e", " ", "3", " ", "o", "f", " ", "4", "0">>,
     <<"2", " ", "o", "f", " ", "2">>,
     <<"P", "a", "g", "e", " ", "1", " ", "o", "f", " ", "2", "\r", "\n">>,
     <<"1", " ", "o", "f", " ", "1", "_", "0">>,
     <<"1", " ", "o", "f", "U+00A0", "7">>,
     <<"1", " ", "o", "f", " ", "U+001C", "3">>,
     <<"1", " ", "o", "f", " ", "1", "_", "_", "0">>,
     <<"1", " ", "o", "f", " ", "U+FF11", "U+FF12">>}

\* the <li> texts of details lists
SampleDetails ==
    {<<<<"U+06F3", " ", "B", "e", "d", "s">>, <<"U+0968", ".", "U+096B", " ", "B", "a", "t", "h", "s">>, <<"U+0967", ",", "U+096E", "U+096B", "U+0966", " ", "S", "q", " ", "F", "t">>>>,
     <<>>,
     <<<<"3", " ", "B", "e", "d", "s">>, <<"2", ".", "5", " ", "B", "a", "t", "h", "s">>, <<"1", ",", "8", "5", "0", " ", "S", "q", " ", "F", "t">>>>,
     <<<<"S", "t", "u", "d", "i", "o", " ", "B", "e", "d", "s">>, <<"2", " ", "B", "a", "t", "h", "s">>>>,
     <<<<"4", " ", "B", "e", "d", "s">>, <<"1", ",", "2", " ", "S", "q", " ", "F", "t">>, <<"x", " ", "B", "a", "t", "h", "s">>>>,
     <<<<"1", "2", " ", "S", "q", " ", "F", "t", " ", "B", "e", "d", "s">>>>,
     <<<<"-", "1", " ", "B", "e", "d", "s">>, <<"i", "n", "f", " ", "B", "a", "t", "h", "s">>, <<"1", ",", "8", "5", "0", "\r", "S", "q", " ", "F", "t">>>>,
     <<<<"1", "_", "0", " ", "B", "e", "d", "s">>, <<"n", "a", "n", " ", "B", "a", "t", "h", "s">>>>,
     <<<<"+", "4", " ", "B", "e", "d", "s">>, <<"1", "e", "3", " ", "B", "a", "t", "h", "s">>, <<"1", "_", "8", ",", "5", "0", " ", "S", "q", " ", "F", "t">>>>,
     <<<<"0", ".", "0", "0", "0", "0", "1", " ", "B", "a", "t", "h", "s">>, <<"1", "2", "3", "4", "5", "6", "7", "8", "9", "0", "1", "2", "3", "4", "5", "6", "7", "8", "9", "0", " ", "S", "q", " ", "F", "t">>>>,
     <<<<"-", "0", " ", "B", "a", "t", "h", "s">>, <<"1", "e", "1", "6", " ", "B", "e", "d", "s">>>>,
     <<<<"1", "2", "3", "4", "5", "6", "7", "8", "9", "0", "1", "2", "3", "4", "5", "6", "7", "8", "9", "0", " ", "B", "a", "t", "h", "s">>>>}

SamplePills == {Absent, Elem(<<"S", "o", "l", "d">>)}

SampleContainers ==
    {Absent} \cup {PriceContainer(t, p) : t \in SampleContainerTexts, p \in SamplePills}

SampleMarkers ==
    {Absent, [present |-> TRUE, span |-> Absent]}
        \cup {[present |-> TRUE, span |-> Elem(t)] : t \in SampleSpanTexts}

SampleFirstResponses ==
    {NetworkError}
        \cup {Response(st, ErrorPage) : st \in Statuses \ {200}}
        \cup {Response(200, [ErrorPage EXCEPT !.search_marker = m]) : m \in SampleMarkers}

SampleNodes ==
    ListingNodes \cup
    {[kind |-> "for-sale",
      price_container |-> c,
      details_container |-> d,
      address |-> Elem("1 Bay Ct"),
      description_container |-> Absent,
      agent_detail |-> Absent] :
        c \in SampleContainers,
        d \in {Absent} \cup {[present |-> TRUE, items |-> x] : x \in SampleDetails}}

(***************************************************************************)
(* State                                                                   *)
(***************************************************************************)
VARIABLES
    pc,                     \* where the program is
    input,                  \* input.txt: whether it exists, and its lines
    agents,                 \* the user-agent strings that UserAgent().random chooses from
    locIdx,                 \* index of the line the for loop of main is at
    file,                   \* content of output.json
    backup,                 \* what the page cycle has logged about its backup file
    all_properties,         \* main
    properties,             \* scrape_real_estate_listings
    page,
    total_pages,
    total_records_scraped,
    soup,                   \* the parts of the page of the loop read after scrape_page
    session_headers,        \* the header set the session sends
    header_count,           \* calls of get_random_headers made for this location
    attempt,                \* scrape_page
    tasks,                  \* the tasks given to asyncio.gather
    page_listings,
    stopReason,             \* the message logged when the page loop stops
    crash,                  \* the exception that escaped main, "none" when none
    lastGet,                \* the last GET request sent
    unsaved,                \* the last failed write of properties and what became of it
    arg,                    \* a function applied on its own: its name and argument
    ret                     \* and what it has returned

vars == <<pc, input, agents, locIdx, file, backup, all_properties, properties, page,
          total_pages, total_records_scraped, soup, session_headers, header_count,
          attempt, tasks, page_listings, stopReason, crash, lastGet,
          unsaved, arg, ret>>

LineKinds == {"blank", "location"}

Inputs ==
    {[exists |-> FALSE, lines |-> <<>>]} \cup
    {[exists |-> TRUE, lines |-> l] : l \in [1..NumLocations -> LineKinds]}

NoSoup == [pagination |-> "none", search_results |-> FALSE]
\* the user-agent strings, numbered, and the collections of them that the
\* data of fake_useragent may hold
UserAgents == 1..NumUserAgents
AgentData == {1..k : k \in 1..NumUserAgents}
\* get_random_headers, lines 27-43: the dict it returns when UserAgent().random
\* gives ua; every other entry is a constant
Headers(ua) ==
    [k \in {"User-Agent", "Accept", "Accept-Language", "Accept-Encoding", "Connection",
            "Upgrade-Insecure-Requests", "Sec-Fetch-Dest", "Sec-Fetch-Mode",
            "Sec-Fetch-Site", "Sec-Fetch-User", "Cache-Control"} |->
        CASE k = "User-Agent" -> ua
          [] k = "Accept" ->
                "text/html,application/xhtml+xml,application/xml;q=0.9,image/webp,*/*;q=0.8"
          [] k = "Accept-Language" -> "en-US,en;q=0.5"
          [] k = "Accept-Encoding" -> "gzip, deflate, br"
          [] k = "Connection" -> "keep-alive"
          [] k = "Upgrade-Insecure-Requests" -> "1"
          [] k = "Sec-Fetch-Dest" -> "document"
          [] k = "Sec-Fetch-Mode" -> "navigate"
          [] k = "Sec-Fetch-Site" -> "none"
          [] k = "Sec-Fetch-User" -> "?1"
          [] k = "Cache-Control" -> "max-age=0"]
\* no session, no headers
NoHeaders == [k \in {} |-> ""]
\* n: the number of the request among those of its location; generated: the
\* dict the last call of get_random_headers returned; calls: how many calls
\* of get_random_headers the location had made when the request was sent
NoGet == [kind |-> "none", loc |-> 0, n |-> 0, page |-> 0, status |-> 0,
          headers |-> NoHeaders, generated |-> NoHeaders, calls |-> 0]

\* unsaved: "pending" from a failed write of recs in location loc until the
\* next completed write, then "resolved" by location by until the next request
NothingUnsaved == [state |-> "none", recs |-> <<>>, loc |-> 0, by |-> 0]
Pending(recs, loc) == [state |-> "pending", recs |-> recs, loc |-> loc, by |-> 0]
Resolved(u, loc) ==
    IF u.state = "pending"
    THEN [state |-> "resolved", recs |-> u.recs, loc |-> u.loc, by |-> loc]
    ELSE u
Forgotten(u) == IF u.state = "resolved" THEN NothingUnsaved ELSE u

NoCall == [fn |-> "none"]
NotReturned == [kind |-> "not returned"]
Returned(v) == [kind |-> "returned", value |-> v]

\* the locals before anything has run
Fresh ==
    /\ locIdx = 1
    /\ backup = "none"
    /\ all_properties = JsonList(<<>>)
    /\ properties = <<>>
    /\ page = 1
    /\ total_pages = PyInt(FALSE, <<1>>)
    /\ total_records_scraped = 0
    /\ soup = NoSoup
    /\ session_headers = NoHeaders
    /\ header_count = 0
    /\ attempt = 0
    /\ tasks = <<>>
    /\ page_listings = <<>>
    /\ stopReason = "none"
    /\ crash = "none"
    /\ lastGet = NoGet
    /\ unsaved = NothingUnsaved

\* a run of main, with one user-agent string to choose from
Init ==
    /\ pc = "main"
    /\ input \in Inputs
    /\ agents = {1}
    /\ file \in InitialFiles
    /\ Fresh
    /\ arg = NoCall
    /\ ret = NotReturned

\* session.get: the request is sent with the headers hdrs of the session;
\* gen is the dict the last call of get_random_headers returned, calls the
\* number of these calls
Send(kind, resp, hdrs, gen, calls) ==
    lastGet' = [kind |-> kind, loc |-> locIdx,
                n |-> IF kind = "first" THEN 1 ELSE lastGet.n + 1,
                page |-> page, status |-> resp.status, headers |-> hdrs,
                generated |-> gen, calls |-> calls]

(***************************************************************************)
(* main                                                                    *)
(***************************************************************************)
\* lines 396-415: input.txt is checked, output.json is loaded
MainStart ==
    /\ pc = "main"
    /\ LET r == LoadAllProperties(file)
       IN IF ~input.exists
          THEN pc' = "done" /\ UNCHANGED <<all_properties, crash>>
          ELSE IF r.raised # "none"
          THEN pc' = "crashed" /\ crash' = r.raised /\ UNCHANGED all_properties
          ELSE pc' = "for" /\ all_properties' = r.value /\ UNCHANGED crash
    /\ UNCHANGED <<input, agents, locIdx, file, backup, properties, page,
                   total_pages, total_records_scraped, soup, session_headers,
                   header_count, attempt, tasks, page_listings, stopReason,
                   lastGet, unsaved, arg, ret>>

\* lines 418-421 and 433: the next line of input.txt; blank lines are skipped
ForLocation ==
    /\ pc = "for"
    /\ IF locIdx > Len(input.lines)
       THEN pc' = "done" /\ UNCHANGED locIdx
       ELSE IF input.lines[locIdx] = "blank"
       THEN locIdx' = locIdx + 1 /\ UNCHANGED pc
       ELSE pc' = "scrape" /\ UNCHANGED locIdx
    /\ UNCHANGED <<input, agents, file, backup, all_properties, properties,
                   page, total_pages, total_records_scraped, soup,
                   session_headers, header_count, attempt, tasks,
                   page_listings, stopReason, crash, lastGet, unsaved, arg,
                   ret>>

\* lines 424-431: the merge-and-resave step; its write is not guarded
MainMerge ==
    /\ pc = "merge"
    /\ IF AlreadySaved(file)
       THEN /\ pc' = "for"
            /\ locIdx' = locIdx + 1
            /\ UNCHANGED <<file, all_properties, crash, unsaved>>
       ELSE IF all_properties.kind # "list"
       THEN /\ pc' = "crashed"
            /\ crash' = "AttributeError"
            /\ UNCHANGED <<locIdx, file, all_properties, unsaved>>
       ELSE LET merged == JsonList(all_properties.recs \o properties)
            IN /\ all_properties' = merged
               /\ \/ /\ file' = merged
                     /\ unsaved' = Resolved(unsaved, locIdx)
                     /\ pc' = "for"
                     /\ locIdx' = locIdx + 1
                     /\ UNCHANGED crash
                  \/ /\ file' \in AfterFailedWrite(file, merged.recs)
                     /\ pc' = "crashed"
                     /\ crash' = "OSError"
                     /\ UNCHANGED <<locIdx, unsaved>>
    /\ UNCHANGED <<input, agents, backup, properties, page, total_pages,
                   total_records_scraped, soup, session_headers, header_count,
                   attempt, tasks, page_listings, stopReason, lastGet, arg,
                   ret>>

(***************************************************************************)
(* scrape_real_estate_listings                                             *)
(***************************************************************************)
\* lines 204-236: existing records are loaded, the session gets its headers;
\* an exception of the load leaves the function and, through main, the run
ScrapeStart ==
    /\ pc = "scrape"
    /\ LET r == LoadExisting(file)
       IN IF r.raised # "none"
          THEN /\ pc' = "crashed"
               /\ crash' = r.raised
               /\ UNCHANGED <<properties, page, header_count, session_headers,
                              backup, unsaved>>
          ELSE /\ properties' = r.value
               /\ page' = 1
               /\ header_count' = 1
               /\ \E ua \in agents : session_headers' = Headers(ua)
               /\ backup' = "none"
               /\ unsaved' = Forgotten(unsaved)
               /\ pc' = "first"
               /\ UNCHANGED crash
    /\ UNCHANGED <<input, agents, locIdx, file, all_properties, total_pages,
                   total_records_scraped, soup, attempt, tasks, page_listings,
                   stopReason, lastGet, arg, ret>>

\* lines 238-263: the request of the base URL gives the total page count
GetTotalPages ==
    /\ pc = "first"
    /\ \E resp \in FirstResponses :
          /\ Send("first", resp, session_headers, session_headers, header_count)
          /\ total_pages' = TotalPagesOf(resp)
    /\ total_records_scraped' = Len(properties)
    /\ pc' = "while"
    /\ UNCHANGED <<input, agents, locIdx, file, backup, all_properties,
                   properties, page, soup, session_headers, header_count,
                   attempt, tasks, page_listings, stopReason, crash, unsaved,
                   arg, ret>>

\* line 265: the loop condition fails
LoopExit ==
    /\ pc = "while"
    /\ LessThan(total_pages, page)
    /\ pc' = "return"
    /\ UNCHANGED <<input, agents, locIdx, file, backup, all_properties,
                   properties, page, total_pages, total_records_scraped, soup,
                   session_headers, header_count, attempt, tasks,
                   page_listings, stopReason, crash, lastGet, unsaved, arg,
                   ret>>

\* lines 265-312: the page is requested with the headers the session has
PageGet ==
    /\ pc = "while"
    /\ ~LessThan(total_pages, page)
    /\ \E resp \in PageResponses :
          /\ Send("page", resp, session_headers, lastGet.generated, header_count)
          /\ IF PageStop(resp) # "none"
             THEN /\ stopReason' = PageStop(resp)
                  /\ pc' = "return"
                  /\ UNCHANGED soup
             ELSE /\ soup' = [pagination |-> resp.body.pagination,
                              search_results |-> resp.body.search_marker.present]
                  /\ pc' = "scrape_page"
                  /\ UNCHANGED stopReason
    /\ attempt' = 0
    /\ backup' = "none"
    /\ unsaved' = Forgotten(unsaved)
    /\ UNCHANGED <<input, agents, locIdx, file, all_properties, properties,
                   page, total_pages, total_records_scraped, session_headers,
                   header_count, tasks, page_listings, crash, arg, ret>>

\* scrape_page, lines 154-190 and 195-201: new headers, the same URL is
\* requested again, and one task per listing container is created.  The site
\* serves no page whose records would take the Dataset beyond MaxRecords.
ScrapePageGet ==
    /\ pc = "scrape_page"
    /\ attempt < max_retries
    /\ header_count' = header_count + 1
    /\ \E ua \in agents, resp \in ScrapeResponses :
          /\ session_headers' = UpdatedHeaders(session_headers, Headers(ua))
          /\ IF resp.exception THEN TRUE
             ELSE Len(properties) + Yield(resp.body.nodes) <= MaxRecords
          /\ Send("scrape", resp, session_headers', Headers(ua), header_count')
          /\ IF Retries(resp, attempt)
             THEN /\ attempt' = attempt + 1
                  /\ UNCHANGED <<pc, tasks, page_listings>>
             ELSE IF resp.exception \/ resp.status # 200
                     \/ ListingElements(resp.body.nodes) = <<>>
             THEN /\ page_listings' = <<>>
                  /\ pc' = "page_listings"
                  /\ UNCHANGED <<attempt, tasks>>
             ELSE /\ tasks' = [i \in 1..Len(ListingElements(resp.body.nodes)) |->
                                  [node |-> ListingElements(resp.body.nodes)[i],
                                   pos |-> PositionOf(resp.body.nodes,
                                                      ListingElements(resp.body.nodes),
                                                      ListingElements(resp.body.nodes)[i]),
                                   state |-> "pending", result |-> None]]
                  /\ pc' = "gather"
                  /\ UNCHANGED <<attempt, page_listings>>
    /\ UNCHANGED <<input, agents, locIdx, file, backup, all_properties,
                   properties, page, total_pages, total_records_scraped, soup,
                   stopReason, crash, unsaved, arg, ret>>

Running(ts) == Cardinality({i \in DOMAIN ts : ts[i].state = "running"})

\* lines 186-188: a task enters the semaphore, runs process_listing and leaves
\* the semaphore; process_listing never suspends, so the task does all of it
\* in one turn of the event loop, and no task is running between two turns
TaskRun(i) ==
    /\ pc = "gather"
    /\ tasks[i].state = "pending"
    /\ Running(tasks) < ConcurrencyLimit
    /\ tasks' = [tasks EXCEPT ![i].state = "done",
                              ![i].result = ProcessListingOf[tasks[i].node]]
    /\ UNCHANGED <<pc, input, agents, locIdx, file, backup, all_properties,
                   properties, page, total_pages, total_records_scraped, soup,
                   session_headers, header_count, attempt, page_listings,
                   stopReason, crash, lastGet, unsaved, arg, ret>>

\* lines 191-193 and 315: gather returns, scrape_page returns the records
GatherReturn ==
    /\ pc = "gather"
    /\ GatherDone(tasks)
    /\ page_listings' = Gathered(tasks)
    /\ pc' = "page_listings"
    /\ UNCHANGED <<input, agents, locIdx, file, backup, all_properties,
                   properties, page, total_pages, total_records_scraped, soup,
                   session_headers, header_count, attempt, tasks, stopReason,
                   crash, lastGet, unsaved, arg, ret>>

\* lines 317-343: the records are appended and the whole list is written
PageResult ==
    /\ pc = "page_listings"
    /\ tasks' = <<>>
    /\ IF HasListings(page_listings)
       THEN /\ properties' = Extended(properties, page_listings)
            /\ total_records_scraped' = total_records_scraped + Len(page_listings)
            /\ \/ /\ file' = Dumped(properties', page_listings)
                  /\ unsaved' = Resolved(unsaved, locIdx)
                  /\ pc' = "pagination"
               \/ /\ file' \in AfterFailedWrite(file, properties')
                  /\ unsaved' = Pending(properties', locIdx)
                  /\ pc' = "backup"
            /\ UNCHANGED stopReason
       ELSE /\ stopReason' = "no-listings"
            /\ pc' = "return"
            /\ UNCHANGED <<properties, total_records_scraped, file, unsaved>>
    /\ UNCHANGED <<input, agents, locIdx, backup, all_properties, page,
                   total_pages, soup, session_headers, header_count, attempt,
                   page_listings, crash, lastGet, arg, ret>>

\* lines 333-340: the backup file; its failure is only logged
BackupWrite ==
    /\ pc = "backup"
    /\ backup' \in {"saved", "failed"}
    /\ pc' = "pagination"
    /\ UNCHANGED <<input, agents, locIdx, file, all_properties, properties,
                   page, total_pages, total_records_scraped, soup,
                   session_headers, header_count, attempt, tasks,
                   page_listings, stopReason, crash, lastGet, unsaved, arg,
                   ret>>

\* lines 345-366: the next page, or the end of the loop
NextPage ==
    /\ pc = "pagination"
    /\ IF Continuation(soup, page, total_pages) = "continue"
       THEN page' = NextPageIndex(page) /\ pc' = "while" /\ UNCHANGED stopReason
       ELSE stopReason' = Continuation(soup, page, total_pages)
            /\ pc' = "return" /\ UNCHANGED page
    /\ backup' = "none"
    /\ UNCHANGED <<input, agents, locIdx, file, all_properties, properties,
                   total_pages, total_records_scraped, soup, session_headers,
                   header_count, attempt, tasks, page_listings, crash, lastGet,
                   unsaved, arg, ret>>

\* lines 372-376: the session is closed, the closing log lines divide by
\* total_pages, and properties is returned; the other locals are gone
ScrapeReturn ==
    /\ pc = "return"
    /\ IF BigIsZero(total_pages.mag)
       THEN pc' = "crashed" /\ crash' = "ZeroDivisionError"
       ELSE pc' = "merge" /\ UNCHANGED crash
    /\ page' = 1
    /\ total_pages' = PyInt(FALSE, <<1>>)
    /\ total_records_scraped' = 0
    /\ soup' = NoSoup
    /\ session_headers' = NoHeaders
    /\ header_count' = 0
    /\ attempt' = 0
    /\ page_listings' = <<>>
    /\ stopReason' = "none"
    /\ lastGet' = NoGet
    /\ UNCHANGED <<input, agents, locIdx, file, backup, all_properties,
                   properties, tasks, unsaved, arg, ret>>

Next ==
    \/ MainStart
    \/ ForLocation
    \/ MainMerge
    \/ ScrapeStart
    \/ GetTotalPages
    \/ LoopExit
    \/ PageGet
    \/ ScrapePageGet
    \/ \E i \in DOMAIN tasks : TaskRun(i)
    \/ GatherReturn
    \/ PageResult
    \/ BackupWrite
    \/ NextPage
    \/ ScrapeReturn

Spec == Init /\ [][Next]_vars

(***************************************************************************)
(* One call of scrape_real_estate_listings, from its first statement to    *)
(* its return, with the file as any earlier run may have left it and with  *)
(* each collection of user-agent strings.                                  *)
(***************************************************************************)
ScrapeInit ==
    /\ pc = "scrape"
    /\ input = [exists |-> TRUE, lines |-> <<"location">>]
    /\ agents \in AgentData
    /\ file \in InitialFiles
    /\ Fresh
    /\ arg = NoCall
    /\ ret = NotReturned

ScrapeNext ==
    \/ ScrapeStart
    \/ GetTotalPages
    \/ LoopExit
    \/ PageGet
    \/ ScrapePageGet
    \/ \E i \in DOMAIN tasks : TaskRun(i)
    \/ GatherReturn
    \/ PageResult
    \/ BackupWrite
    \/ NextPage
    \/ ScrapeReturn

\* every GET returns, every sleep ends and every write returns or raises:
\* the event loop always takes the next step of the call
ScrapeSpec == ScrapeInit /\ [][ScrapeNext]_vars /\ WF_vars(ScrapeNext)

(***************************************************************************)
(* The functions applied one at a time on the sample inputs.               *)
(***************************************************************************)
Calls ==
    {[fn |-> "convert_price_to_number", price_text |-> t] : t \in SamplePriceTexts}
        \cup {[fn |-> "price_and_status", price_container |-> c] : c \in SampleContainers}
        \cup {[fn |-> "total_pages", response |-> r] : r \in SampleFirstResponses}
        \cup {[fn |-> "process_listing", listing |-> n] : n \in SampleNodes}

CallInit ==
    /\ pc = "call"
    /\ input = [exists |-> FALSE, lines |-> <<>>]
    /\ agents = {1}
    /\ file = NoFile
    /\ Fresh
    /\ arg \in Calls
    /\ ret = NotReturned

\* lines 378-392
CallConvertPrice ==
    /\ pc = "call" /\ ret = NotReturned
    /\ arg.fn = "convert_price_to_number"
    /\ ret' = Returned(convert_price_to_number(arg.price_text))
    /\ UNCHANGED <<pc, input, agents, locIdx, file, backup, all_properties,
                   properties, page, total_pages, total_records_scraped, soup,
                   session_headers, header_count, attempt, tasks,
                   page_listings, stopReason, crash, lastGet, unsaved, arg>>

\* lines 51-75
CallPriceAndStatus ==
    /\ pc = "call" /\ ret = NotReturned
    /\ arg.fn = "price_and_status"
    /\ ret' = Returned(PriceAndStatus(arg.price_container))
    /\ UNCHANGED <<pc, input, agents, locIdx, file, backup, all_properties,
                   properties, page, total_pages, total_records_scraped, soup,
                   session_headers, header_count, attempt, tasks,
                   page_listings, stopReason, crash, lastGet, unsaved, arg>>

\* lines 238-260
CallTotalPages ==
    /\ pc = "call" /\ ret = NotReturned
    /\ arg.fn = "total_pages"
    /\ ret' = Returned(TotalPagesOf(arg.response))
    /\ UNCHANGED <<pc, input, agents, locIdx, file, backup, all_properties,
                   properties, page, total_pages, total_records_scraped, soup,
                   session_headers, header_count, attempt, tasks,
                   page_listings, stopReason, crash, lastGet, unsaved, arg>>

\* lines 44-148
CallProcessListing ==
    /\ pc = "call" /\ ret = NotReturned
    /\ arg.fn = "process_listing"
    /\ ret' = Returned(process_listing(arg.listing))
    /\ UNCHANGED <<pc, input, agents, locIdx, file, backup, all_properties,
                   properties, page, total_pages, total_records_scraped, soup,
                   session_headers, header_count, attempt, tasks,
                   page_listings, stopReason, crash, lastGet, unsaved, arg>>

CallNext ==
    \/ CallConvertPrice
    \/ CallPriceAndStatus
    \/ CallTotalPages
    \/ CallProcessListing

CallSpec == CallInit /\ [][CallNext]_vars

TypeOK ==
    /\ pc \in {"main", "for", "scrape", "first", "while", "scrape_page", "gather",
               "page_listings", "backup", "pagination", "return", "merge", "done",
               "crashed", "call"}
    /\ page >= 1
    /\ Len(tasks) <= MaxListings

(***************************************************************************)
(* Properties                                                              *)
(***************************************************************************)
IsPrefix(s, t) == Len(s) <= Len(t) /\ SubSeq(t, 1, Len(s)) = s

\* the normalized price of the price text of each listing container
PriceOfNode ==
    [n \in ListingNodes |->
        convert_price_to_number(PriceAndStatus(n.price_container).price_text)]

PriceOf(node) == PriceOfNode[node]

IsNumber(x) == x.kind \in {"int", "float"}

\* the value is a number and is not below the threshold
ReachesThreshold(x) == IsNumber(x) /\ ~LessThan(x, Threshold)

KnownPrices == {PriceOfNode[n] : n \in ListingNodes}
ReachingPrices == {x \in KnownPrices : ReachesThreshold(x)}
BelowPrices == {x \in KnownPrices : IsNumber(x) /\ LessThan(x, Threshold)}
AtThreshold(x) == IF x \in KnownPrices THEN x \in ReachingPrices ELSE ReachesThreshold(x)

\* the price of the container is a number and reaches the threshold
QualifyingNode(node) == PriceOf(node) \in ReachingPrices

AllAtThreshold(recs) == \A i \in DOMAIN recs : AtThreshold(recs[i].PriceValue)

\* a GET request is sent in this step
Sends == lastGet' # lastGet /\ lastGet'.kind # "none"

Unfinished == \E i \in DOMAIN tasks : tasks[i].state # "done"

\* C1: process_listing returns None for every listing container whose
\* normalized price is below 1,500,000, and every record in the results of a
\* page, in the Dataset and in the output file has a normalized price of at
\* least 1,500,000.
C1_Threshold ==
    /\ \A i \in DOMAIN tasks :
          (tasks[i].state = "done" /\ PriceOf(tasks[i].node) \in BelowPrices)
          => tasks[i].result = None
    /\ \A i \in DOMAIN tasks :
          IsRecord(tasks[i].result) => AllAtThreshold(<<tasks[i].result>>)
    /\ AllAtThreshold(page_listings)
    /\ AllAtThreshold(properties)
    /\ file.kind = "list" => AllAtThreshold(file.recs)

\* C1 witness: a container priced below the threshold has been processed and
\* gave None, on a later page of a location whose Dataset holds the saved
\* record of the container priced "$1.4999999999999999M", which is 1500000.0.
C1_Witness ==
    /\ pc = "gather"
    /\ \E i \in DOMAIN tasks :
          /\ tasks[i].state = "done"
          /\ PriceOf(tasks[i].node) \in BelowPrices
          /\ tasks[i].result = None
    /\ page = 2
    /\ \E k \in DOMAIN properties :
          /\ properties[k] = ProcessListingOf[NodeB]
          /\ Fmt(properties[k].PriceValue) = <<"1", "5", "0", "0", "0", "0", "0", ".", "0">>
    /\ file = JsonList(properties)

\* C2: when the page request of the loop is answered 404, the step leaves the
\* Dataset and the output file as they are, and until the location's run
\* returns no further GET is sent and the Dataset and the file stay unchanged.
C2_NotFoundStops ==
    [][ /\ (Sends /\ lastGet'.kind = "page" /\ lastGet'.status = 404)
            => (properties' = properties /\ file' = file)
        /\ (lastGet.kind = "page" /\ lastGet.status = 404)
            => (~Sends /\ properties' = properties /\ file' = file) ]_vars

\* C2 witness: page 2 was answered 404 after page 1 had been saved.
C2_Witness ==
    /\ pc = "return"
    /\ lastGet.kind = "page"
    /\ lastGet.status = 404
    /\ lastGet.page = 2
    /\ stopReason = "404"
    /\ properties # <<>>
    /\ file = JsonList(properties)

\* C3: a scrape_page call whose first GET is answered 403 sends the GET a
\* second time before it gives the empty list: it never returns after a
\* single GET that was answered 403.
C3_RetriesOnce ==
    ~(pc = "page_listings" /\ lastGet.kind = "scrape" /\ lastGet.status = 403
        /\ attempt = 0)

\* C4 as stated: after a page that was saved, without a pagination block the
\* loop goes on to page+1 exactly if page < total_pages; with a pagination
\* block it goes on only if the block holds a next-page element.
C4_Original ==
    [][ pc = "pagination" =>
          /\ soup.pagination = "none"
                => ((page' = page + 1) <=> ~LessThan(total_pages, page + 1))
          /\ (soup.pagination # "none" /\ page' = page + 1)
                => soup.pagination = "next" ]_vars

\* C4 amended: without a pagination block the loop goes on to page+1 exactly
\* if the page carries the search-results marker and page < total_pages; with
\* a pagination block it goes on only if the block holds a next-page element.
C4_Continuation ==
    [][ pc = "pagination" =>
          /\ soup.pagination = "none"
                => ((page' = page + 1) <=> (soup.search_results /\ ~LessThan(total_pages, page + 1)))
          /\ (soup.pagination # "none" /\ page' = page + 1)
                => soup.pagination = "next" ]_vars

\* C4 witness: the loop has stopped after a saved page without pagination
\* block and without marker although page < total_pages.
C4_Witness ==
    /\ pc = "return"
    /\ stopReason = "no-pagination"
    /\ soup.pagination = "none"
    /\ ~soup.search_results
    /\ ~LessThan(total_pages, page + 1)
    /\ file = JsonList(properties)

\* C5 as stated: every GET follows a new call of get_random_headers and
\* carries a header set other than that of the GET before it.
C5_Original ==
    [][ (Sends /\ lastGet'.kind # "first")
            => (lastGet'.calls > lastGet.calls /\ lastGet'.headers # lastGet.headers) ]_vars

\* C5 amended: the first request of a location and every request of
\* scrape_page follow a call of get_random_headers made after the GET before
\* them and carry the header set that this call returned; every page request
\* of the loop follows no such call and carries the header set of the GET
\* before it.
C5_Headers ==
    [][ Sends => IF lastGet'.kind = "page"
                 THEN /\ lastGet'.calls = lastGet.calls
                      /\ lastGet'.headers = lastGet.headers
                 ELSE /\ lastGet'.calls = (IF lastGet'.kind = "first" THEN 1
                                           ELSE lastGet.calls + 1)
                      /\ lastGet'.headers = lastGet'.generated
                      /\ \E ua \in agents : lastGet'.headers = Headers(ua) ]_vars

\* C5 witness: the third request of a location, sent by scrape_page with the
\* header set of the second call of get_random_headers, after the first two
\* requests shared the header set of the first call.
C5_Witness ==
    /\ lastGet.kind = "scrape"
    /\ lastGet.n = 3
    /\ lastGet.calls = 2
    /\ header_count = 2
    /\ lastGet.headers = session_headers
    /\ lastGet.headers = lastGet.generated
    /\ Cardinality(agents) > 1

\* C6: no failed write of the output file ends the run.
C6_WriteFailureNeverFatal ==
    ~(pc = "crashed" /\ crash = "OSError")

\* C7: while a failed write is pending in the location that made it, the
\* Dataset keeps its records, and the next completed write of the output
\* file, whichever page or location makes it, holds them with the records
\* gathered before them.
C7_NextSaveHolds ==
    /\ [](unsaved.state = "pending" /\ unsaved.loc = locIdx
            => IsPrefix(unsaved.recs, properties))
    /\ [][ (unsaved.state = "pending" /\ unsaved'.state = "resolved")
            => (file'.kind = "list" /\ IsPrefix(unsaved.recs, file'.recs)) ]_vars

\* C8: an output file whose content is not a sequence of records never makes
\* the loading raise.
C8_LoadNeverRaises ==
    file.kind \in {"malformed", "scalar", "unloadable"}
        => ~(pc = "crashed"
                /\ crash \in {"TypeError", "UnicodeDecodeError", "RecursionError",
                              "ValueError", "PermissionError"})

\* C9: scrape_page gives the empty list exactly when none of the page's
\* listing containers reaches the threshold, and the page cycle then leaves
\* the Dataset and the output file unchanged and stops the loop with "No
\* listings processed", whatever the pagination block and the page count.
C9_NoListingsStops ==
    /\ [](pc = "page_listings"
            => (page_listings = <<>>
                  <=> \A i \in DOMAIN tasks : ~QualifyingNode(tasks[i].node)))
    /\ [][ (pc = "page_listings" /\ page_listings = <<>>)
            => /\ properties' = properties
               /\ file' = file
               /\ pc' = "return"
               /\ stopReason' = "no-listings" ]_vars

\* C9 witness: the loop has stopped for want of listings on a page that shows
\* a next-page element and is not the last one, with records in the Dataset.
C9_Witness ==
    /\ pc = "return"
    /\ stopReason = "no-listings"
    /\ soup.pagination = "next"
    /\ ~LessThan(total_pages, page + 1)
    /\ properties # <<>>

\* C10: while an extraction task of a page has not finished, scrape_page has
\* not returned, and no step changes the Dataset or the output file.
C10_Barrier ==
    /\ [](Unfinished => pc = "gather")
    /\ [][ Unfinished => (properties' = properties /\ file' = file) ]_vars

\* C10 witness: one task of a page has given a record while another task of
\* the page has not run yet.
C10_Witness ==
    /\ pc = "gather"
    /\ \E i, j \in DOMAIN tasks :
          /\ tasks[i].state = "done"
          /\ IsRecord(tasks[i].result)
          /\ tasks[j].state = "pending"

\* the response whose search-results marker has a span with this text
MarkedResponse(text) ==
    Response(200, [ErrorPage EXCEPT !.search_marker = [present |-> TRUE, span |-> Elem(text)]])

\* what stands before "of N" in the span texts
PagePrefixes ==
    {<<>>, <<"1", " ">>, <<"2", " ">>, <<"P", "a", "g", "e", " ", "1", " ">>,
     <<"P", "a", "g", "e", " ", "3", " ">>}

\* span texts from which no page count can be read
UnparsableSpans ==
    {<<"P", "a", "g", "e", " ", "1">>, <<"1", " ", "o", "f", " ", "m", "a", "n", "y">>,
     <<"1", " ", "o", "f">>, <<"1", " ", "o", "f", " ", "1", ",", "2", "3", "4">>,
     <<"1", " ", "O", "F", " ", "3">>}

\* page counts of ten digits
LongCounts == {<<1, 2, 3, 4, 5, 6, 7, 8, 9, 0>>, <<1, 0, 0, 0, 0, 0, 0, 0, 0, 0>>}

\* C11: the total page count is N when the span of the search-results marker
\* of the first page reads "x of N", and 1 when the first request fails or is
\* not answered 200, when the marker or its span is missing, and when the
\* text of the span cannot be parsed.
C11_TotalPages ==
    (arg.fn = "total_pages" /\ ret # NotReturned) =>
        /\ (arg.response.exception \/ arg.response.status # 200) => ret.value = PyInt(FALSE, <<1>>)
        /\ (~arg.response.exception /\ arg.response.status = 200) =>
              /\ ~arg.response.body.search_marker.present => ret.value = PyInt(FALSE, <<1>>)
              /\ (arg.response.body.search_marker.present
                    /\ ~arg.response.body.search_marker.span.present) => ret.value = PyInt(FALSE, <<1>>)
        /\ \A t \in UnparsableSpans : arg.response = MarkedResponse(t) => ret.value = PyInt(FALSE, <<1>>)
        /\ \A x \in PagePrefixes : \A n \in 0..40 :
              arg.response = MarkedResponse(x \o <<"o", "f", " ">> \o DigitChars(NatDigits(n)))
                  => ret.value = PyInt(FALSE, NatDigits(n))
        /\ \A x \in PagePrefixes : \A ds \in LongCounts :
              arg.response = MarkedResponse(x \o <<"o", "f", " ">> \o DigitChars(ds))
                  => ret.value = PyInt(FALSE, ds)

\* C11 witness: "Page 1 of 12" has given 12.
C11_Witness ==
    /\ arg.fn = "total_pages"
    /\ arg.response = MarkedResponse(TXT_PAGE_1_OF \o <<"1", "2">>)
    /\ ret = Returned(PyInt(FALSE, <<1, 2>>))

\* C12: convert_price_to_number maps every price text to a number (d x
\* 1,000,000 for a text with a million suffix, the decimal parse of the
\* concatenated runs of digits and points otherwise, 0 with no such run): a
\* call that has returned has returned a number.
C12_AlwaysNumber ==
    (arg.fn = "convert_price_to_number" /\ ret # NotReturned) => IsNumber(ret.value)

\* the tokens of the text of a price container that carries no status tag
Untagged(c) == c.present /\ ~c.pill.present /\ Split(c.text) # <<>>

\* C13 as stated: for a price text without status tag whose first token is
\* 'Est' the price text is the second token and the status 'Estimated Price';
\* for any other the price text is the first token and the status the
\* remaining tokens joined by single spaces.
C13_Original ==
    (arg.fn = "price_and_status" /\ ret # NotReturned /\ Untagged(arg.price_container)) =>
        LET parts == Split(arg.price_container.text)
        IN IF parts[1] = TXT_EST
           THEN /\ Len(parts) > 1
                /\ ret.value = [price_text |-> parts[2], status |-> TXT_ESTIMATED]
           ELSE ret.value = [price_text |-> parts[1], status |-> JoinSpace(Tail(parts))]

\* C13 amended: for a price text without status tag whose first token is
\* 'Est' and which has a second token, the price text is the second token
\* and the status 'Estimated Price'; for any other the price text is the first
\* token and the status the remaining tokens joined by single spaces.
\* 'Est $3.2M' gives '$3.2M' and 'Estimated Price'.
C13_PriceAndStatus ==
    (arg.fn = "price_and_status" /\ ret # NotReturned /\ Untagged(arg.price_container)) =>
        LET parts == Split(arg.price_container.text)
        IN /\ IF parts[1] = TXT_EST /\ Len(parts) > 1
              THEN ret.value = [price_text |-> parts[2], status |-> TXT_ESTIMATED]
              ELSE ret.value = [price_text |-> parts[1], status |-> JoinSpace(Tail(parts))]
           /\ arg.price_container.text = <<"E", "s", "t", " ", "$", "3", ".", "2", "M">>
                => ret.value = [price_text |-> <<"$", "3", ".", "2", "M">>,
                                status |-> TXT_ESTIMATED]

\* C13 witness: 'Est $3.2M' has been split into '$3.2M' and 'Estimated Price'.
C13_Witness ==
    /\ arg.fn = "price_and_status"
    /\ arg.price_container = PriceContainer(<<"E", "s", "t", " ", "$", "3", ".", "2", "M">>, Absent)
    /\ ret = Returned([price_text |-> <<"$", "3", ".", "2", "M">>, status |-> TXT_ESTIMATED])

\* the text of an integer or of a float as str() gives it
AsciiNumber(t) == t # <<>> /\ \A k \in DOMAIN t : \E d \in DOMAIN AsciiDigits : t[k] = AsciiDigits[d]
Unsigned(t) == IF t # <<>> /\ t[1] = "-" THEN Tail(t) ELSE t
IntText(t) == AsciiNumber(Unsigned(t))
FixedText(t) ==
    \E p \in DOMAIN t :
        /\ t[p] = "."
        /\ AsciiNumber(SubSeq(t, 1, p - 1))
        /\ AsciiNumber(SubSeq(t, p + 1, Len(t)))
ExponentText(t) ==
    \E p \in 2..(Len(t) - 3) :
        /\ t[p] = "e"
        /\ AsciiNumber(SubSeq(t, 1, p - 1)) \/ FixedText(SubSeq(t, 1, p - 1))
        /\ t[p + 1] \in {"+", "-"}
        /\ AsciiNumber(SubSeq(t, p + 2, Len(t)))
DecimalText(t) ==
    \/ t = <<"n", "a", "n">>
    \/ Unsigned(t) = <<"i", "n", "f">>
    \/ FixedText(Unsigned(t))
    \/ ExponentText(Unsigned(t))

\* "<beds>, Baths: <baths>, Sq Ft: <sqft>"
DetailsText(t) ==
    \E i \in 1..(Len(t) - 8) : \E j \in (i + 9)..(Len(t) - 8) :
        /\ SubSeq(t, i, i + 8) = <<",", " ", "B", "a", "t", "h", "s", ":", " ">>
        /\ SubSeq(t, j, j + 8) = <<",", " ", "S", "q", " ", "F", "t", ":", " ">>
        /\ LET beds == SubSeq(t, 1, i - 1)
               baths == SubSeq(t, i + 9, j - 1)
               sqft == SubSeq(t, j + 9, Len(t))
           IN /\ beds = TXT_NONE \/ IntText(beds)
              /\ baths = TXT_NONE \/ DecimalText(baths)
              /\ sqft = TXT_NONE \/ IntText(sqft)

NumberOrNull(v, kinds) == v.kind \in kinds \cup {"None"}

\* the nine fields of the claim, three of them for beds, baths and sqft
SeparateFields(r) ==
    /\ {"Address", "Price", "PriceValue", "Status", "Beds", "Baths", "SqFt", "Agent", "Agency"}
           \subseteq DOMAIN r
    /\ NumberOrNull(r.Beds, {"int"})
    /\ NumberOrNull(r.Baths, {"float"})
    /\ NumberOrNull(r.SqFt, {"int"})

\* one field for the three details
OneDetailsField(r) ==
    /\ {"Address", "Price", "PriceValue", "Status", "Beds", "Agent", "Agency"} \subseteq DOMAIN r
    /\ {"Baths", "SqFt"} \cap DOMAIN r = {}
    /\ DetailsText(r.Beds)

Written == file' # file /\ file'.kind = "list"

\* C14 as stated: every record written to the output file carries beds,
\* baths and square footage as three separate fields, each a number or null,
\* next to the address, price text, price value, status, agent and agency.
C14_Original ==
    [][ Written => \A i \in DOMAIN file'.recs : SeparateFields(file'.recs[i]) ]_vars

\* C14 amended: every record written to the output file carries beds, baths
\* and square footage in the one field 'Beds:', as the text
\* "<beds>, Baths: <baths>, Sq Ft: <sqft>" in which each part is the number
\* as str() prints it (an integer, a float, an integer) or 'None', next to
\* the address, price text, price value, status, agent and agency fields.
C14_DetailsField ==
    [][ Written => \A i \in DOMAIN file'.recs : OneDetailsField(file'.recs[i]) ]_vars

\* C14 witness: the file holds a record with numbers for the three details
\* after one whose baths read inf and whose beds and square footage are unset.
C14_Witness ==
    /\ file.kind = "list"
    /\ Len(file.recs) = 2
    /\ file.recs[1].Beds = TXT_NONE \o <<",", " ", "B", "a", "t", "h", "s", ":", " ">> \o <<"i", "n", "f">>
                             \o <<",", " ", "S", "q", " ", "F", "t", ":", " ">> \o TXT_NONE
    /\ file.recs[2].Beds = <<"3", ",", " ", "B", "a", "t", "h", "s", ":", " ", "2", ".", "5",
                             ",", " ", "S", "q", " ", "F", "t", ":", " ", "1", "8", "5", "0">>

\* C15: driving one location returns normally to the top-level driver for
\* every combination of statuses, network errors and page contents, every
\* page-count text "x of N" included: the step that leaves
\* scrape_real_estate_listings hands its records to main and raises nothing.
C15_ReturnsNormally ==
    [][ pc = "return" => (pc' = "merge" /\ crash' = "none") ]_vars

\* what a listing container yields when it is processed alone: its record,
\* or None when it is below the threshold or its extraction fails
Alone(node) ==
    LET outcome == ExtractListingOf[node]
    IN IF outcome.raised THEN None ELSE outcome.value

FailingNode(node) == ExtractListingOf[node].raised

\* C16: a failure while extracting one listing node yields no record for
\* that node only: a task that runs ends with what its node yields alone and
\* leaves the other tasks of the page as they are, and what scrape_page
\* returns is the records of the nodes that do not fail and qualify, in the
\* order of the tasks.
C16_FailureIsLocal ==
    /\ [][ (pc = "gather" /\ tasks' # tasks /\ pc' = "gather") =>
              \E i \in DOMAIN tasks :
                 /\ tasks[i].state = "pending"
                 /\ tasks'[i].state = "done"
                 /\ \A j \in DOMAIN tasks \ {i} : tasks'[j] = tasks[j]
                 /\ tasks'[i].result = Alone(tasks[i].node) ]_vars
    /\ [][ (pc = "gather" /\ pc' = "page_listings")
              => page_listings' = SelectSeq([i \in DOMAIN tasks |-> Alone(tasks[i].node)],
                                            IsRecord) ]_vars

\* C16 witness: a page with a failing container and a qualifying one has
\* given the record of the qualifying one.
C16_Witness ==
    /\ pc = "page_listings"
    /\ \E i, j \in DOMAIN tasks :
          /\ FailingNode(tasks[i].node)
          /\ tasks[i].result = None
          /\ tasks[j].node = NodeA
          /\ page_listings = <<tasks[j].result>>
          /\ IsRecord(tasks[j].result)

\* the tasks of a page in the order in which their containers stand on it
ByPos(ts) == [p \in 1..Len(ts) |-> ts[CHOOSE i \in DOMAIN ts : ts[i].pos = p]]

RecordsOf(ts) == SelectSeq([i \in DOMAIN ts |-> ts[i].result], IsRecord)

TaskForSale(t) == t.node.kind = "for-sale"
TaskOffMarket(t) == t.node.kind = "off-market"
TaskNoSnippet(t) == t.node.kind = "nosnippet"

\* the page cycle takes what scrape_page returned
Appends == pc = "page_listings" /\ pc' # "page_listings"

\* C17 as stated: whatever the order in which the tasks of a page ran, the
\* records of the page are appended to the Dataset in the order of their
\* listing nodes on the page, after all records of earlier pages.
C17_Original ==
    [][ Appends => properties' = properties \o RecordsOf(ByPos(tasks)) ]_vars

\* C17 amended: whatever the order in which the tasks of a page ran, the
\* records of the page are appended to the Dataset after all records of
\* earlier pages, those of the for-sale containers first, in their order on
\* the page, then those of the off-market containers, in their order on the
\* page (those of the data-nosnippet containers in their order on the page
\* when the page has neither).
C17_ListingElementsOrder ==
    [][ Appends =>
          properties' = properties
                          \o RecordsOf(SelectSeq(ByPos(tasks), TaskForSale))
                          \o RecordsOf(SelectSeq(ByPos(tasks), TaskOffMarket))
                          \o RecordsOf(SelectSeq(ByPos(tasks), TaskNoSnippet)) ]_vars

\* C17 witness: an off-market container standing before a for-sale one on the
\* page, and the for-sale record coming first in what the page gave.
C17_Witness ==
    /\ pc = "page_listings"
    /\ Len(tasks) = 2
    /\ tasks[1].node = NodeA /\ tasks[1].pos = 2
    /\ tasks[2].node = NodeB /\ tasks[2].pos = 1
    /\ page_listings = <<tasks[1].result, tasks[2].result>>
    /\ IsRecord(tasks[1].result) /\ IsRecord(tasks[2].result)

\* the merge-and-resave step of main extends all_properties or writes the file
MergeRuns == pc = "merge" /\ (all_properties' # all_properties \/ file' # file)

\* C18: the merge-and-resave step of main runs after a location only if the
\* output file does not exist at that moment, and a file that exists stays:
\* once a per-page save has succeeded, or when the file was there at the
\* start, the step runs for no location.
C18_MergeOnlyWithoutFile ==
    /\ [][ MergeRuns => file.kind = "absent" ]_vars
    /\ [][ (pc = "merge" /\ file.kind # "absent")
              => (pc' = "for" /\ file' = file /\ all_properties' = all_properties) ]_vars
    /\ [][ file.kind # "absent" => file'.kind # "absent" ]_vars

\* C18 witness: the run started without file, a page of the first location
\* was saved, and main went on to the next location without taking the
\* records.
C18_Witness ==
    /\ pc = "for"
    /\ locIdx > 1
    /\ file.kind = "list" /\ file.recs # <<>>
    /\ all_properties = JsonList(<<>>)

\* how many times the record stands in the sequence
Count(recs, r) == Cardinality({i \in DOMAIN recs : recs[i] = r})

\* C19: a run of a location starts at page 1 with the records of the file,
\* and every qualifying record of a visited page is appended without being
\* compared with the records already there: the Dataset keeps what it had
\* and every record of the page stands in it once more than before.
C19_NoDeduplication ==
    /\ [][ (pc = "scrape" /\ pc' # "crashed")
              => (page' = 1 /\ properties' = LoadExisting(file).value) ]_vars
    /\ [][ Sends => (lastGet'.kind = "first" => lastGet'.page = 1) ]_vars
    /\ [][ Appends =>
             /\ IsPrefix(properties, properties')
             /\ Len(properties') = Len(properties) + Len(RecordsOf(tasks))
             /\ \A i \in DOMAIN tasks :
                   IsRecord(tasks[i].result) =>
                       Count(properties', tasks[i].result)
                           = Count(properties, tasks[i].result) + 1 ]_vars

\* C19 witness: the file held the record of page 1 from an earlier run, the
\* location was run again, and the file now holds the record twice.
C19_Witness ==
    /\ locIdx = 1 /\ page = 1 /\ pc = "pagination"
    /\ file = JsonList(<<OldRecord, OldRecord>>)
    /\ properties = <<OldRecord, OldRecord>>

\* C20: within one page cycle the page URL is requested exactly once, so
\* that the records and the continuation decision come from the same
\* response: the request that follows the request of a page of a location is
\* not a request of the same page.
C20_OneRequestPerCycle ==
    [][ (Sends /\ lastGet.kind = "page" /\ lastGet'.loc = lastGet.loc)
           => lastGet'.page # lastGet.page ]_vars

\* a request of a page of the location, by the page loop or by scrape_page
SendsPage == Sends /\ lastGet'.kind \in {"page", "scrape"}

\* C21: provided every GET returns, the page loop of a location ends after at
\* most total_pages page cycles: the page index starts at 1, grows by exactly
\* 1 after each continued cycle and never decreases, a cycle requests the page
\* that follows the page of the cycle before it, no page beyond the total
\* page count is requested, and the call reaches its return.
C21_LoopTerminates ==
    /\ [][ (pc = "scrape" /\ pc' # "crashed") => page' = 1 ]_vars
    /\ [][ pc # "return" => page' \in {page, page + 1} ]_vars
    /\ [][ (pc = "pagination" /\ pc' = "while") => page' = page + 1 ]_vars
    /\ [][ SendsPage => (1 <= lastGet'.page /\ ~LessThan(total_pages, lastGet'.page)) ]_vars
    /\ [][ (Sends /\ lastGet'.kind = "page") =>
              lastGet'.page = IF lastGet.kind = "first" THEN 1 ELSE lastGet.page + 1 ]_vars
    /\ (pc = "first") ~> (pc = "return")

\* C21 witness: every page up to the total page count has had its cycle and
\* the loop condition has ended the loop.
C21_Witness ==
    /\ pc = "return"
    /\ ~LessThan(total_pages, 2)
    /\ total_pages = PyInt(FALSE, NatDigits(page - 1))
    /\ total_pages = PyInt(FALSE, NatDigits(lastGet.page))
    /\ stopReason = "none"

====
